---- MODULE Spec2Model ----
(***************************************************************************)
(* A model of primitive_db: the typed data model (Column, Row, Table,      *)
(* Database), the two JSON stores (JsonMetadataStorage and                 *)
(* CachedJsonTableStorage with its TTL cache) and the table CRUD engine.   *)
(*                                                                         *)
(* Eleven specifications share the variables:                              *)
(*   Spec          commands run against one Database, one whole handler    *)
(*                 per step, with the write faults the record store's      *)
(*                 except-branches handle;                                 *)
(*   SchemaSpec    the same commands on tables whose column lists name ID  *)
(*                 themselves;                                             *)
(*   StorageSpec   direct calls of CachedJsonTableStorage;                 *)
(*   MetadataSpec  direct calls of JsonMetadataStorage;                    *)
(*   CrashSpec     the two save methods one file-system call at a time,    *)
(*                 so that every point at which the process may stop is a  *)
(*                 state;                                                  *)
(*   ValueSpec     the methods of Row and Table that compute on values     *)
(*                 (validation, coercion, condition matching), each called *)
(*                 with arguments drawn from bounded sets;                 *)
(*   ParserSpec    lines of text handed to CommandParser.parse and the     *)
(*                 parsed command executed, as the engine's loop does;     *)
(*   RestartSpec   inserts whose metadata write fails or is never made,    *)
(*                 and the process started again from the files;           *)
(*   TypedSpec     inserts, updates and selects on a table with an int     *)
(*                 and a bool column;                                      *)
(*   RegistrySpec  RestartSpec with create_table and drop_table whose      *)
(*                 metadata write may fail;                                *)
(*   SharedSpec    two processes, each with its own Database, on the same  *)
(*                 backing files.                                          *)
(***************************************************************************)
EXTENDS Integers, Sequences, FiniteSets, TLC

VARIABLES now, files, tmps, cache, meta, metaTmp, tables, res, lastSaved, assigned, pc

vars == <<now, files, tmps, cache, meta, metaTmp, tables, res, lastSaved, assigned, pc>>

(***************************************************************************)
(* Bounds of the model.                                                    *)
(***************************************************************************)
\* the clock stops advancing at MaxTime
MaxTime == 1
\* a table takes inserts while next_id <= MaxId
MaxId == 2
\* a table file holds at most MaxRows records
MaxRows == 2
\* seconds a cache entry stays valid (the cache_ttl argument; 300 by default)
cache_ttl == 1

(***************************************************************************)
(* Python values.  t is the runtime type; n carries an int or a bool       *)
(* (False = 0, True = 1, as bool is a subclass of int); s carries a str.   *)
(***************************************************************************)
IntV(n) == [n |-> n, t |-> "int", s |-> ""]

StrV(s) == [n |-> 0, t |-> "str", s |-> s]

BoolV(b) == [n |-> IF b THEN 1 ELSE 0, t |-> "bool", s |-> ""]

\* The strings of the model, in Python's (code point) order.
StrOrder == <<"0", "1", "2", "3", "4", "5", "False", "True", "Y", "YES", "a", "b", "no", "yes">>

StrRank(s) == IF \E i \in DOMAIN StrOrder : StrOrder[i] = s
              THEN CHOOSE i \in DOMAIN StrOrder : StrOrder[i] = s
              ELSE 0

\* decimal numerals: DigitStr[n + 1] is str(n)
DigitStr == <<"0", "1", "2", "3", "4", "5">>

IntToStr(n) == IF n + 1 \in DOMAIN DigitStr THEN DigitStr[n + 1] ELSE "5"

IsNumeral(s) == \E i \in DOMAIN DigitStr : DigitStr[i] = s

NumeralValue(s) == (CHOOSE i \in DOMAIN DigitStr : DigitStr[i] = s) - 1

\* str.lower() on the strings of the model
Lower(s) == CASE s = "True" -> "true"
              [] s = "False" -> "false"
              [] s = "Y" -> "y"
              [] s = "YES" -> "yes"
              [] s = "TRUE" -> "true"
              [] s = "Select" -> "select"
              [] s = "UPDATE" -> "update"
              [] s = "Delete" -> "delete"
              [] s = "FROM" -> "from"
              [] s = "SET" -> "set"
              [] s = "WHERE" -> "where"
              [] s = "Frob" -> "frob"
              [] OTHER -> s

\* int(value): [ok, v]
PyInt(v) == CASE v.t = "int" -> [ok |-> TRUE, v |-> v]
              [] v.t = "bool" -> [ok |-> TRUE, v |-> IntV(v.n)]
              [] OTHER -> IF IsNumeral(v.s)
                          THEN [ok |-> TRUE, v |-> IntV(NumeralValue(v.s))]
                          ELSE [ok |-> FALSE, v |-> v]

\* str(value)
PyStr(v) == CASE v.t = "int" -> StrV(IntToStr(v.n))
              [] v.t = "bool" -> StrV(IF v.n = 1 THEN "True" ELSE "False")
              [] OTHER -> v

\* isinstance(value, SUPPORTED_TYPES[type]) as Row._validate applies it
IsInstance(v, type) == CASE type = "bool" -> v.t = "bool"
                         [] type = "int" -> v.t \in {"int", "bool"}
                         [] OTHER -> v.t = "str"

(***************************************************************************)
(* JSON.  A file holds text; the model keeps what json.dump wrote as a     *)
(* sequence of JSON objects whose members are JSON values.                 *)
(***************************************************************************)
\* json.dump of one value: bool is written as true/false, before the int test
JsonDumpValue(v) == CASE v.t = "bool" -> [n |-> 0, s |-> "", jt |-> IF v.n = 1 THEN "true" ELSE "false"]
                      [] v.t = "int" -> [n |-> v.n, s |-> "", jt |-> "number"]
                      [] OTHER -> [n |-> 0, s |-> v.s, jt |-> "string"]

\* json.load of one value
JsonLoadValue(j) == CASE j.jt = "true" -> BoolV(TRUE)
                      [] j.jt = "false" -> BoolV(FALSE)
                      [] j.jt = "number" -> IntV(j.n)
                      [] OTHER -> StrV(j.s)

JsonDump(rows) == [i \in DOMAIN rows |-> [k \in DOMAIN rows[i] |-> JsonDumpValue(rows[i][k])]]

JsonLoad(doc) == [i \in DOMAIN doc |-> [k \in DOMAIN doc[i] |-> JsonLoadValue(doc[i][k])]]

\* A table file: absent, a complete JSON document, or text json.load rejects
\* (an empty or partly written file).
NoFile == [doc |-> <<>>, kind |-> "absent"]

JsonFile(doc) == [doc |-> doc, kind |-> "json"]

Garbage == [doc |-> <<>>, kind |-> "garbage"]

\* The collection a reader gets from a file (load's file branch).
Collection(f) == IF f.kind = "json" THEN JsonLoad(f.doc) ELSE <<>>

(***************************************************************************)
(* The names tables are given, the records direct saves write, and the     *)
(* write faults of the environment.                                         *)
(***************************************************************************)
TableNames == {"users"}

SampleRecords == { [ID |-> IntV(1), name |-> StrV("a")],
                   [ID |-> IntV(2), ok |-> BoolV(TRUE)] }

\* the row lists a direct save is called with
RowLists == UNION { [1..k -> SampleRecords] : k \in 0..MaxRows }

\* What goes wrong in CachedJsonTableStorage.save, one field per guarded step:
\*   backup    reading the rollback snapshot ("ioerr": the inner except's IOError)
\*   write     the try block ("open": the temporary file cannot be opened,
\*             "dump": the write stops part way, "replace": the rename fails)
\*   rollback  the write-back of the snapshot ("open": cannot be opened,
\*             "write": stops after the file was truncated); errors are ignored
\*   unlink    removing the temporary file; an OSError is ignored
NoFault == [backup |-> "ok", write |-> "ok", rollback |-> "ok", unlink |-> "ok"]

\* A failed snapshot read shows only when the write-back then succeeds, and the
\* three places the try block can fail at differ only when the temporary file
\* stays, so those combinations are enumerated once.
TableFaults == {NoFault} \cup
               { f \in [backup : {"ok", "ioerr"}, write : {"open", "dump", "replace"},
                        rollback : {"ok", "open", "write"}, unlink : {"ok", "fail"}] :
                   /\ f.backup = "ioerr" => f.rollback = "ok"
                   /\ f.unlink = "ok" => f.write = "dump" }

\* JsonMetadataStorage.save has no snapshot and no rollback.
MetaFaults == {NoFault} \cup
              { f \in [backup : {"ok"}, write : {"open", "dump", "replace"},
                       rollback : {"ok"}, unlink : {"ok", "fail"}] : TRUE }

(***************************************************************************)
(* CachedJsonTableStorage                                                   *)
(***************************************************************************)
NoEntry == [present |-> FALSE, data |-> <<>>, ts |-> 0]

Entry(data, time) == [present |-> TRUE, data |-> data, ts |-> time]

\* _is_cache_valid with an entry kept valid at the age of cache_ttl
IsCacheValidInclusive(entry, time) == entry.present /\ time - entry.ts <= cache_ttl

\* _is_cache_valid
IsCacheValid(entry, time) == entry.present /\ time - entry.ts < cache_ttl

\* load: the list returned and the cache entry afterwards.  The records of the
\* list returned are the very dicts the entry holds (list.copy() is shallow).
Load(f, entry, time) ==
    IF IsCacheValid(entry, time)
    THEN [data |-> entry.data, entry |-> entry, hit |-> TRUE]
    ELSE IF f.kind = "absent"
         THEN [data |-> <<>>, entry |-> entry, hit |-> FALSE]
         ELSE [data |-> Collection(f), entry |-> Entry(Collection(f), time), hit |-> FALSE]

\* save, the rollback snapshot: backup_data (some = FALSE is None)
Backup(f, fault) ==
    IF f.kind = "absent" THEN [some |-> FALSE, data |-> <<>>]
    ELSE IF f.kind = "json" /\ fault.backup = "ok"
         THEN [some |-> TRUE, data |-> JsonLoad(f.doc)]
         ELSE [some |-> TRUE, data |-> <<>>]

\* save, the temporary file when the try block is left at the fault
TmpAtFault(tmpf, data, fault) ==
    CASE fault.write = "open" -> tmpf
      [] fault.write = "dump" -> Garbage
      [] OTHER -> JsonFile(JsonDump(data))

\* save, the except branch: the canonical file after the write-back
Rollback(f, backup, fault) ==
    IF backup.some /\ f.kind # "absent"
    THEN CASE fault.rollback = "ok" -> JsonFile(JsonDump(backup.data))
           [] fault.rollback = "open" -> f
           [] OTHER -> Garbage
    ELSE f

\* save, the except branch: the temporary file after unlink
Unlink(tmpf, fault) ==
    IF tmpf.kind # "absent" /\ fault.unlink = "ok" THEN NoFile ELSE tmpf

SaveKeepsCache(f, tmpf, entry, data, fault) ==
    IF fault.write = "ok"
    THEN [ok |-> TRUE, file |-> JsonFile(JsonDump(data)), tmp |-> NoFile, entry |-> entry]
    ELSE [ok |-> FALSE, file |-> Rollback(f, Backup(f, fault), fault),
          tmp |-> Unlink(TmpAtFault(tmpf, data, fault), fault), entry |-> entry]

\* save: ok (FALSE: StorageError is raised), the canonical file, the temporary
\* file and the cache entry afterwards
Save(f, tmpf, entry, data, fault) ==
    IF fault.write = "ok"
    THEN [ok |-> TRUE, file |-> JsonFile(JsonDump(data)), tmp |-> NoFile, entry |-> NoEntry]
    ELSE [ok |-> FALSE, file |-> Rollback(f, Backup(f, fault), fault),
          tmp |-> Unlink(TmpAtFault(tmpf, data, fault), fault), entry |-> entry]

\* exists
Exists(f) == f.kind # "absent"

(***************************************************************************)
(* JsonMetadataStorage.  The file holds {"tables": {name: {"columns": ...,  *)
(* "next_id": n}}}; doc is that mapping.                                    *)
(***************************************************************************)
NoMeta == [doc |-> <<>>, kind |-> "absent"]

MetaFile(doc) == [doc |-> doc, kind |-> "json"]

MetaGarbage == [doc |-> <<>>, kind |-> "garbage"]

\* a file whose bytes are not UTF-8 text: reading it raises UnicodeDecodeError,
\* which is no JSONDecodeError
MetaUndecodable == [doc |-> <<>>, kind |-> "undecodable"]

MetaSaveInPlace(m, mtmp, doc, fault) ==
    IF fault.write = "ok"
    THEN [ok |-> TRUE, file |-> MetaFile(doc), tmp |-> NoMeta]
    ELSE [ok |-> FALSE, file |-> IF fault.write = "dump" THEN MetaGarbage ELSE m,
          tmp |-> NoMeta]

\* save: ok (FALSE: StorageError is raised), the canonical file and the
\* temporary file afterwards
MetaSave(m, mtmp, doc, fault) ==
    IF fault.write = "ok"
    THEN [ok |-> TRUE, file |-> MetaFile(doc), tmp |-> NoMeta]
    ELSE LET tmp1 == CASE fault.write = "open" -> mtmp
                       [] fault.write = "dump" -> MetaGarbage
                       [] OTHER -> MetaFile(doc)
         IN [ok |-> FALSE, file |-> m,
             tmp |-> IF tmp1.kind # "absent" /\ fault.unlink = "ok" THEN NoMeta ELSE tmp1]

\* load: ok (FALSE: StorageError is raised) and the schema returned; {} when
\* the file is missing or json.load rejects it with JSONDecodeError, and
\* StorageError for any other exception
MetaLoad(m) ==
    CASE m.kind = "json" -> [ok |-> TRUE, doc |-> m.doc]
      [] m.kind \in {"absent", "garbage"} -> [ok |-> TRUE, doc |-> <<>>]
      [] OTHER -> [ok |-> FALSE, doc |-> <<>>]

(***************************************************************************)
(* The decorators of Command.execute.                                      *)
(***************************************************************************)
\* the commands whose execute the model runs
CommandOps == {"create_table", "drop_table", "insert", "select", "update", "delete"}

\* the exceptions the wrapped methods raise; each is a subclass of Exception
\* (TableAlreadyExistsError and TableNotFoundError of ValueError)
Exceptions == {"ValueError", "TableAlreadyExistsError", "TableNotFoundError", "KeyError",
               "TypeError", "StorageError"}

\* handle_db_errors: what the wrapper returns for what the wrapped function
\* did.  Every except branch prints and falls through to `return None`.
HandleDbErrors(ok, err) ==
    IF ok THEN "CommandResult" ELSE IF err \in Exceptions THEN "None" ELSE "raise"

\* the answers input() gives to confirm_action ("eof": it raises EOFError)
Responses == {"y", "Y", "n", "", "eof"}

\* confirm_action: "run" the wrapped function, return "None", or let the
\* EOFError of input() out ("raise"); no handler is around this wrapper
ConfirmAction(response) ==
    CASE response = "eof" -> "raise"
      [] Lower(response) = "y" -> "run"
      [] OTHER -> "None"

(***************************************************************************)
(* What the last call did: op and table name it; ok is FALSE when it       *)
(* raised, and err then names the exception; n is the ID or the count it   *)
(* returned; saved tells whether it called the record store's save.  For a *)
(* command, returned is what execute gave its caller ("CommandResult",     *)
(* "None", or "raise" when an exception escaped) and success the field of  *)
(* the CommandResult.  args and value hold the arguments and the value of  *)
(* a call whose claim needs them.                                          *)
(***************************************************************************)
Result(op, t, ok, err, n, saved) ==
    [op |-> op, table |-> t, ok |-> ok, err |-> err, n |-> n, saved |-> saved,
     returned |-> IF op \in CommandOps THEN HandleDbErrors(ok, err) ELSE "",
     success |-> op \in CommandOps /\ ok,
     args |-> <<>>, value |-> <<>>]

NoResult == Result("none", "", TRUE, "", 0, FALSE)

\* None, as backup_data starts and as the record of a save not yet made
NoSave == [some |-> FALSE, data |-> <<>>]

\* Where a save stands, for CrashSpec: the step it is at, the table and rows
\* (or the schema doc) it was called with, backup_data, and the canonical file
\* as the call found it.
Idle == [at |-> "idle", table |-> "", data |-> <<>>, doc |-> <<>>, backup |-> NoSave,
         start |-> NoFile]

(***************************************************************************)
(* StorageSpec: a caller of the two stores.                                 *)
(***************************************************************************)
Column(name, type) == [type |-> type, name |-> name]

StorageInit ==
    /\ now = 0
    /\ files = [t \in TableNames |-> NoFile]
    /\ tmps = [t \in TableNames |-> NoFile]
    /\ cache = [t \in TableNames |-> NoEntry]
    /\ meta = NoMeta
    /\ metaTmp = NoMeta
    /\ tables = <<>>
    /\ res = NoResult
    /\ lastSaved = [t \in TableNames |-> NoSave]
    /\ assigned = [t \in TableNames |-> [fresh |-> FALSE, ids |-> <<>>]]
    /\ pc = Idle

\* time.time() moves on between calls
Tick ==
    /\ now < MaxTime
    /\ now' = now + 1
    /\ UNCHANGED <<files, tmps, cache, meta, metaTmp, tables, res, lastSaved, assigned, pc>>

StorageLoad(t) ==
    \E r \in {Load(files[t], cache[t], now)} :
       /\ cache' = [cache EXCEPT ![t] = r.entry]
       /\ res' = Result("load", t, TRUE, "", Len(r.data), FALSE)
       /\ UNCHANGED <<now, files, tmps, meta, metaTmp, tables, lastSaved, assigned, pc>>

StorageSave(t, rows, fault) ==
    \E r \in {Save(files[t], tmps[t], cache[t], rows, fault)} :
       /\ files' = [files EXCEPT ![t] = r.file]
       /\ tmps' = [tmps EXCEPT ![t] = r.tmp]
       /\ cache' = [cache EXCEPT ![t] = r.entry]
       /\ res' = Result("save", t, r.ok, IF r.ok THEN "" ELSE "StorageError", 0, TRUE)
       /\ lastSaved' = IF r.ok THEN [lastSaved EXCEPT ![t] = [some |-> TRUE, data |-> rows]]
                       ELSE lastSaved
       /\ UNCHANGED <<now, meta, metaTmp, tables, assigned, pc>>

StorageExists(t) ==
    /\ res' = Result("exists", t, TRUE, "", IF Exists(files[t]) THEN 1 ELSE 0, FALSE)
    /\ UNCHANGED <<now, files, tmps, cache, meta, metaTmp, tables, lastSaved, assigned, pc>>

MetadataSave(doc, fault) ==
    \E r \in {MetaSave(meta, metaTmp, doc, fault)} :
       /\ meta' = r.file
       /\ metaTmp' = r.tmp
       /\ res' = Result("meta_save", "", r.ok, IF r.ok THEN "" ELSE "StorageError", 0, FALSE)
       /\ UNCHANGED <<now, files, tmps, cache, tables, lastSaved, assigned, pc>>

MetadataLoad ==
    /\ \E l \in {MetaLoad(meta)} :
          res' = Result("meta_load", "", l.ok, IF l.ok THEN "" ELSE "StorageError",
                        Cardinality(DOMAIN l.doc), FALSE)
    /\ UNCHANGED <<now, files, tmps, cache, meta, metaTmp, tables, lastSaved, assigned, pc>>

StorageNext ==
    \/ Tick
    \/ \E t \in TableNames : StorageLoad(t)
    \/ \E t \in TableNames, rows \in RowLists, fault \in TableFaults : StorageSave(t, rows, fault)
    \/ \E t \in TableNames : StorageExists(t)

StorageSpec == StorageInit /\ [][StorageNext]_vars

(***************************************************************************)
(* Table: the typed data model and the CRUD engine.  A table is            *)
(* [columns, next_id]; a record is a function from column names to values. *)
(***************************************************************************)
\* Table.__init__: an ID:int column is put first when no column is named ID
TableInit(columns, next_id) ==
    [columns |-> IF \E i \in DOMAIN columns : columns[i].name = "ID"
                 THEN columns
                 ELSE <<Column("ID", "int")>> \o columns,
     next_id |-> next_id]

\* Table.to_dict
TableToDict(tb) ==
    [columns |-> [i \in DOMAIN tb.columns |-> [name |-> tb.columns[i].name, type |-> tb.columns[i].type]],
     next_id |-> tb.next_id]

\* Table.from_dict
TableFromDict(d) ==
    TableInit([i \in DOMAIN d.columns |-> Column(d.columns[i].name, d.columns[i].type)], d.next_id)

\* _column_index: of two columns of one name the later one is kept
HasColumn(tb, name) == \E i \in DOMAIN tb.columns : tb.columns[i].name = name

ColumnType(tb, name) ==
    LET last == CHOOSE i \in DOMAIN tb.columns :
                    /\ tb.columns[i].name = name
                    /\ \A j \in DOMAIN tb.columns : tb.columns[j].name = name => j <= i
    IN tb.columns[last].type

TruthyText == {"true", "1", "yes"}

FalsyText == {"false", "0", "no"}

\* validate_row_data, the conversion of one value to its column's type
CoerceInsert(v, type) ==
    CASE type = "bool" ->
           IF v.t = "str"
           THEN IF Lower(v.s) \in TruthyText THEN [ok |-> TRUE, v |-> BoolV(TRUE)]
                ELSE IF Lower(v.s) \in FalsyText THEN [ok |-> TRUE, v |-> BoolV(FALSE)]
                ELSE [ok |-> FALSE, v |-> v]
           ELSE [ok |-> TRUE, v |-> v]
      [] type = "int" -> PyInt(v)
      [] OTHER -> [ok |-> TRUE, v |-> PyStr(v)]

RECURSIVE FillRow(_, _, _, _)
\* validate_row_data, the loop over zip(columns_to_fill, values)
FillRow(columns, values, i, row) ==
    IF i > Len(columns) THEN [ok |-> TRUE, row |-> row]
    ELSE LET c == CoerceInsert(values[i], columns[i].type)
         IN IF c.ok
            THEN FillRow(columns, values, i + 1, (columns[i].name :> c.v) @@ row)
            ELSE [ok |-> FALSE, row |-> row]

\* validate_row_data(values) with skip_id = True: ok is FALSE for ValueError
ValidateRowData(tb, values) ==
    LET columns_to_fill == Tail(tb.columns)
    IN IF Len(values) # Len(columns_to_fill)
       THEN [ok |-> FALSE, row |-> <<>>]
       ELSE FillRow(columns_to_fill, values, 1, "ID" :> IntV(tb.next_id))

IsNumber(v) == v.t \in {"int", "bool"}

\* _compare_values: "true", "false", or "error" where Python raises TypeError
\* (an ordering of a str with a number) or ValueError (an unknown operator)
CompareValues(actual, operator, expected) ==
    LET same == IsNumber(actual) = IsNumber(expected)
        eq == IF IsNumber(actual) THEN actual.n = expected.n ELSE actual.s = expected.s
        lt == IF IsNumber(actual) THEN actual.n < expected.n
              ELSE StrRank(actual.s) < StrRank(expected.s)
        B(b) == IF b THEN "true" ELSE "false"
    IN CASE operator = "=" -> B(same /\ eq)
         [] operator = "!=" -> B(~(same /\ eq))
         [] operator \in {"<", ">", "<=", ">="} ->
              IF ~same THEN "error"
              ELSE CASE operator = "<" -> B(lt)
                     [] operator = ">" -> B(~lt /\ ~eq)
                     [] operator = "<=" -> B(lt \/ eq)
                     [] OTHER -> B(~lt)
         [] OTHER -> "error"

MatchesSome(record, conditions, i) ==
    IF \E j \in i..Len(conditions) :
           /\ conditions[j].column \in DOMAIN record
           /\ CompareValues(record[conditions[j].column], conditions[j].operator,
                            conditions[j].value) = "true"
    THEN "true"
    ELSE "false"

RECURSIVE MatchesFrom(_, _, _)
MatchesFrom(record, conditions, i) ==
    IF i > Len(conditions) THEN "true"
    ELSE IF conditions[i].column \notin DOMAIN record THEN "false"
    ELSE LET c == CompareValues(record[conditions[i].column], conditions[i].operator,
                                conditions[i].value)
         IN IF c = "true" THEN MatchesFrom(record, conditions, i + 1) ELSE c

\* _matches_conditions: the conditions are taken in the dict's order; "error"
\* when a comparison raises
MatchesConditions(record, conditions) == MatchesFrom(record, conditions, 1)

\* Row._validate: "" when the record passes, else the exception the first
\* offending column raises
RowValidate(record, tb) ==
    LET Bad(i) == \/ tb.columns[i].name \notin DOMAIN record
                  \/ ~IsInstance(record[tb.columns[i].name], ColumnType(tb, tb.columns[i].name))
    IN IF \A i \in DOMAIN tb.columns : ~Bad(i) THEN ""
       ELSE LET first == CHOOSE i \in DOMAIN tb.columns :
                             Bad(i) /\ \A j \in DOMAIN tb.columns : Bad(j) => i <= j
            IN IF tb.columns[first].name \notin DOMAIN record THEN "KeyError" ELSE "ValueError"

\* update, the conversion of one new value to its column's type
CoerceUpdate(v, type) ==
    CASE type = "bool" /\ v.t = "str" -> [ok |-> TRUE, v |-> BoolV(Lower(v.s) \in TruthyText)]
      [] type = "int" /\ v.t = "str" -> PyInt(v)
      [] type = "str" -> [ok |-> TRUE, v |-> PyStr(v)]
      [] OTHER -> [ok |-> TRUE, v |-> v]

RECURSIVE ApplySet(_, _, _, _)
\* update, the loop over set_clause.items() on one record: the record is
\* changed in place, so it keeps the assignments made before one raises
ApplySet(record, tb, set_clause, j) ==
    IF j > Len(set_clause) THEN [ok |-> TRUE, record |-> record]
    ELSE IF ~HasColumn(tb, set_clause[j].column) THEN ApplySet(record, tb, set_clause, j + 1)
    ELSE LET c == CoerceUpdate(set_clause[j].value, ColumnType(tb, set_clause[j].column))
         IN IF c.ok
            THEN ApplySet((set_clause[j].column :> c.v) @@ record, tb, set_clause, j + 1)
            ELSE [ok |-> FALSE, record |-> record]

RECURSIVE UpdateLoop(_, _, _, _, _, _)
\* update, the loop over enumerate(data)
UpdateLoop(data, tb, set_clause, where_clause, i, updated_count) ==
    IF i > Len(data) THEN [ok |-> TRUE, err |-> "", data |-> data, count |-> updated_count]
    ELSE LET m == IF where_clause = <<>> THEN "true"
                  ELSE MatchesConditions(data[i], where_clause)
         IN CASE m = "error" ->
                   [ok |-> FALSE, err |-> "TypeError", data |-> data, count |-> updated_count]
              [] m = "false" ->
                   UpdateLoop(data, tb, set_clause, where_clause, i + 1, updated_count)
              [] OTHER ->
                   LET a == ApplySet(data[i], tb, set_clause, 1)
                       changed == [data EXCEPT ![i] = a.record]
                   IN IF a.ok
                      THEN UpdateLoop(changed, tb, set_clause, where_clause, i + 1,
                                      updated_count + 1)
                      ELSE [ok |-> FALSE, err |-> "ValueError", data |-> changed,
                            count |-> updated_count]

\* What a Table method leaves behind: ok (FALSE: it raised err), the value
\* returned (id, count or rows), whether save was called, and the table
\* file, temporary file, cache entry and next_id afterwards.
Outcome(ok, err, id, count, rows, saved, f, tmpf, entry, next_id) ==
    [ok |-> ok, err |-> err, id |-> id, count |-> count, rows |-> rows, saved |-> saved,
     file |-> f, tmp |-> tmpf, entry |-> entry, next_id |-> next_id]

\* Table.insert, up to the call of _save_metadata
TableInsert(tb, f, tmpf, entry, time, values, fault) ==
    LET v == ValidateRowData(tb, values)
        l == Load(f, entry, time)
        s == Save(f, tmpf, l.entry, Append(l.data, v.row), fault)
    IN IF ~v.ok
       THEN Outcome(FALSE, "ValueError", IntV(0), 0, <<>>, FALSE, f, tmpf, entry, tb.next_id)
       ELSE Outcome(s.ok, IF s.ok THEN "" ELSE "StorageError", v.row["ID"], 0, <<>>, TRUE,
                    s.file, s.tmp, s.entry, IF s.ok THEN tb.next_id + 1 ELSE tb.next_id)

\* Table.select
TableSelect(tb, f, tmpf, entry, time, conditions) ==
    LET l == Load(f, entry, time)
        Hit(r) == MatchesConditions(r, conditions) = "true"
        data == IF conditions = <<>> THEN l.data ELSE SelectSeq(l.data, Hit)
        raises == /\ conditions # <<>>
                  /\ \E i \in DOMAIN l.data : MatchesConditions(l.data[i], conditions) = "error"
        invalid == { i \in DOMAIN data : RowValidate(data[i], tb) # "" }
        first == CHOOSE i \in invalid : \A j \in invalid : i <= j
    IN IF raises
       THEN Outcome(FALSE, "TypeError", IntV(0), 0, <<>>, FALSE, f, tmpf, l.entry, tb.next_id)
       ELSE IF invalid # {}
       THEN Outcome(FALSE, RowValidate(data[first], tb), IntV(0), 0, <<>>, FALSE, f, tmpf,
                    l.entry, tb.next_id)
       ELSE Outcome(TRUE, "", IntV(0), 0, data, FALSE, f, tmpf, l.entry, tb.next_id)

TableUpdateSavesAlways(tb, f, tmpf, entry, time, set_clause, where_clause, fault) ==
    LET l == Load(f, entry, time)
        u == UpdateLoop(l.data, tb, set_clause, where_clause, 1, 0)
        s == Save(f, tmpf, l.entry, u.data, fault)
    IN Outcome(u.ok /\ s.ok, "", IntV(0), u.count, <<>>, TRUE, s.file, s.tmp, s.entry, tb.next_id)

\* Table.update.  The records load returned are the dicts of the cache entry,
\* so the entry shows every assignment made, saved or not.
TableUpdate(tb, f, tmpf, entry, time, set_clause, where_clause, fault) ==
    LET l == Load(f, entry, time)
        u == UpdateLoop(l.data, tb, set_clause, where_clause, 1, 0)
        shared == l.hit \/ f.kind # "absent"
        dirty == IF shared THEN [l.entry EXCEPT !.data = u.data] ELSE l.entry
        s == Save(f, tmpf, dirty, u.data, fault)
    IN IF ~u.ok
       THEN Outcome(FALSE, u.err, IntV(0), 0, <<>>, FALSE, f, tmpf, dirty, tb.next_id)
       ELSE IF u.count > 0
       THEN Outcome(s.ok, IF s.ok THEN "" ELSE "StorageError", IntV(0), u.count, <<>>, TRUE,
                    s.file, s.tmp, s.entry, tb.next_id)
       ELSE Outcome(TRUE, "", IntV(0), 0, <<>>, FALSE, f, tmpf, dirty, tb.next_id)

TableDeleteDropsAll(tb, f, tmpf, entry, time, where_clause, fault) ==
    LET l == Load(f, entry, time)
        deleted_count == Len(l.data)
        s == Save(f, tmpf, l.entry, <<>>, fault)
    IN IF deleted_count > 0
       THEN Outcome(s.ok, IF s.ok THEN "" ELSE "StorageError", IntV(0), deleted_count, <<>>,
                    TRUE, s.file, s.tmp, s.entry, tb.next_id)
       ELSE Outcome(TRUE, "", IntV(0), 0, <<>>, FALSE, f, tmpf, l.entry, tb.next_id)

TableDeleteSavesAlways(tb, f, tmpf, entry, time, where_clause, fault) ==
    LET l == Load(f, entry, time)
        Keep(r) == where_clause # <<>> /\ MatchesConditions(r, where_clause) # "true"
        filtered_data == SelectSeq(l.data, Keep)
        s == Save(f, tmpf, l.entry, filtered_data, fault)
    IN Outcome(s.ok, "", IntV(0), Len(l.data) - Len(filtered_data), <<>>, TRUE,
               s.file, s.tmp, s.entry, tb.next_id)

\* Table.delete
TableDelete(tb, f, tmpf, entry, time, where_clause, fault) ==
    LET l == Load(f, entry, time)
        raises == /\ where_clause # <<>>
                  /\ \E i \in DOMAIN l.data : MatchesConditions(l.data[i], where_clause) = "error"
        Keep(r) == where_clause # <<>> /\ MatchesConditions(r, where_clause) # "true"
        filtered_data == SelectSeq(l.data, Keep)
        deleted_count == Len(l.data) - Len(filtered_data)
        s == Save(f, tmpf, l.entry, filtered_data, fault)
    IN IF raises
       THEN Outcome(FALSE, "TypeError", IntV(0), 0, <<>>, FALSE, f, tmpf, l.entry, tb.next_id)
       ELSE IF deleted_count > 0
       THEN Outcome(s.ok, IF s.ok THEN "" ELSE "StorageError", IntV(0), deleted_count, <<>>,
                    TRUE, s.file, s.tmp, s.entry, tb.next_id)
       ELSE Outcome(TRUE, "", IntV(0), 0, <<>>, FALSE, f, tmpf, l.entry, tb.next_id)

(***************************************************************************)
(* Database: the schema registry, a function from the names of its tables. *)
(***************************************************************************)
\* Database._save_metadata: the store's result; a StorageError is caught
SaveMetadata(registry, m, mtmp, mfault) ==
    MetaSave(m, mtmp, [name \in DOMAIN registry |-> TableToDict(registry[name])], mfault)

\* Database._load_metadata: the registry a new Database starts with; an
\* exception of load is printed and the registry stays empty
LoadMetadata(m) ==
    LET doc == MetaLoad(m).doc IN [name \in DOMAIN doc |-> TableFromDict(doc[name])]

\* del self.tables[name]
Without(registry, name) == [k \in DOMAIN registry \ {name} |-> registry[k]]

\* the column lists create_table is given
ColumnLists == { <<Column("name", "str"), Column("age", "int")>> }

\* column lists that name ID themselves
IdColumnLists == { <<Column("name", "str"), Column("ID", "int")>> }

\* the value lists insert is given
ValueLists == { <<StrV("a"), IntV(1)>>, <<StrV("a"), StrV("1")>>, <<StrV("a"), StrV("b")>>,
                <<IntV(2)>> }

Assign(column, value) == [column |-> column, value |-> value]

Cond(column, operator, value) == [column |-> column, operator |-> operator, value |-> value]

\* the set maps update is given
SetClauses == { <<Assign("age", IntV(2))>>,
                <<Assign("age", IntV(2)), Assign("ID", StrV("a"))>>,
                <<Assign("ID", IntV(1))>> }

\* the conditions select, update and delete are given (<<>>: none)
WhereClauses == { <<>>,
                  <<Cond("ID", "=", IntV(1))>>,
                  <<Cond("age", ">=", IntV(2))>>,
                  <<Cond("name", "<", IntV(1))>>,
                  <<Cond("zip", "=", IntV(1))>> }

\* In Spec a save works, fails and is rolled back, or fails and its rollback
\* stops after truncating the file; the temporary files are always removed.
\* StorageSpec and MetadataSpec cover the other faults.
CommandFaults == { f \in TableFaults : f.unlink = "ok" /\ f.backup = "ok" /\ f.rollback # "open" }

CommandMetaFaults == { f \in MetaFaults : f.unlink = "ok" }

Init == StorageInit

CreateTableOverwrites(name, columns, mfault) ==
    LET registry == (name :> TableInit(columns, 1)) @@ tables
        m == SaveMetadata(registry, meta, metaTmp, mfault)
    IN /\ tables' = registry
       /\ meta' = m.file
       /\ metaTmp' = m.tmp
       /\ assigned' = [assigned EXCEPT ![name] = [fresh |-> ~Exists(files[name]), ids |-> <<>>]]
       /\ res' = Result("create_table", name, TRUE, "", 0, FALSE)
       /\ UNCHANGED <<now, files, tmps, cache, lastSaved, pc>>

\* Database.create_table
CreateTable(name, columns, mfault) ==
    IF name \in DOMAIN tables
    THEN /\ res' = Result("create_table", name, FALSE, "TableAlreadyExistsError", 0, FALSE)
         /\ UNCHANGED <<now, files, tmps, cache, meta, metaTmp, tables, lastSaved, assigned, pc>>
    ELSE LET registry == (name :> TableInit(columns, 1)) @@ tables
             m == SaveMetadata(registry, meta, metaTmp, mfault)
         IN /\ tables' = registry
            /\ meta' = m.file
            /\ metaTmp' = m.tmp
            /\ assigned' = [assigned EXCEPT ![name] = [fresh |-> ~Exists(files[name]), ids |-> <<>>]]
            /\ res' = Result("create_table", name, TRUE, "", 0, FALSE)
            /\ UNCHANGED <<now, files, tmps, cache, lastSaved, pc>>

\* Database.drop_table
DropTable(name, mfault) ==
    IF name \notin DOMAIN tables
    THEN /\ res' = Result("drop_table", name, FALSE, "TableNotFoundError", 0, FALSE)
         /\ UNCHANGED <<now, files, tmps, cache, meta, metaTmp, tables, lastSaved, assigned, pc>>
    ELSE LET registry == Without(tables, name)
             m == SaveMetadata(registry, meta, metaTmp, mfault)
         IN /\ tables' = registry
            /\ meta' = m.file
            /\ metaTmp' = m.tmp
            /\ res' = Result("drop_table", name, TRUE, "", 0, FALSE)
            /\ UNCHANGED <<now, files, tmps, cache, lastSaved, assigned, pc>>

\* get_table failing for a name that is not in the registry
NotFound(op, name) ==
    /\ name \notin DOMAIN tables
    /\ res' = Result(op, name, FALSE, "TableNotFoundError", 0, FALSE)
    /\ UNCHANGED <<now, files, tmps, cache, meta, metaTmp, tables, lastSaved, assigned, pc>>

\* the record store after a Table method
Stored(name, o) ==
    /\ files' = [files EXCEPT ![name] = o.file]
    /\ tmps' = [tmps EXCEPT ![name] = o.tmp]
    /\ cache' = [cache EXCEPT ![name] = o.entry]

\* get_table(name).insert(values); _save_metadata runs after a successful save
Insert(name, values, fault, mfault) ==
    /\ name \in DOMAIN tables
    /\ tables[name].next_id <= MaxId
    /\ Len(Load(files[name], cache[name], now).data) < MaxRows
    /\ \E o \in {TableInsert(tables[name], files[name], tmps[name], cache[name], now, values, fault)} :
       LET registry == [tables EXCEPT ![name].next_id = o.next_id]
           m == SaveMetadata(registry, meta, metaTmp, mfault)
       IN /\ Stored(name, o)
          /\ tables' = registry
          /\ meta' = IF o.ok THEN m.file ELSE meta
          /\ metaTmp' = IF o.ok THEN m.tmp ELSE metaTmp
          /\ o.ok \/ mfault = NoFault
          /\ assigned' = IF o.ok
                         THEN [assigned EXCEPT ![name].ids = Append(@, o.id)]
                         ELSE assigned
          /\ res' = Result("insert", name, o.ok, o.err, IF o.ok THEN o.id.n ELSE 0, o.saved)
          /\ UNCHANGED <<now, lastSaved, pc>>

\* get_table(name).select(conditions)
Select(name, conditions) ==
    /\ name \in DOMAIN tables
    /\ \E o \in {TableSelect(tables[name], files[name], tmps[name], cache[name], now, conditions)} :
          /\ Stored(name, o)
          /\ res' = Result("select", name, o.ok, o.err, Len(o.rows), FALSE)
          /\ UNCHANGED <<now, meta, metaTmp, tables, lastSaved, assigned, pc>>

\* get_table(name).update(set_clause, where_clause)
Update(name, set_clause, where_clause, fault) ==
    /\ name \in DOMAIN tables
    /\ \E o \in {TableUpdate(tables[name], files[name], tmps[name], cache[name], now,
                            set_clause, where_clause, fault)} :
          /\ o.saved \/ fault = NoFault
          /\ Stored(name, o)
          /\ res' = Result("update", name, o.ok, o.err, o.count, o.saved)
          /\ UNCHANGED <<now, meta, metaTmp, tables, lastSaved, assigned, pc>>

\* get_table(name).delete(where_clause)
Delete(name, where_clause, fault) ==
    /\ name \in DOMAIN tables
    /\ \E o \in {TableDelete(tables[name], files[name], tmps[name], cache[name], now,
                            where_clause, fault)} :
          /\ o.saved \/ fault = NoFault
          /\ Stored(name, o)
          /\ res' = Result("delete", name, o.ok, o.err, o.count, o.saved)
          /\ UNCHANGED <<now, meta, metaTmp, tables, lastSaved, assigned, pc>>

\* confirm_action with an answer other than y: the wrapped execute is not called
Cancel(op, name, response) ==
    /\ ConfirmAction(response) # "run"
    /\ res' = [Result(op, name, response # "eof", IF response = "eof" THEN "EOFError" ELSE "",
                       0, FALSE)
                 EXCEPT !.returned = ConfirmAction(response), !.success = FALSE,
                        !.args = <<response>>]
    /\ UNCHANGED <<now, files, tmps, cache, meta, metaTmp, tables, lastSaved, assigned, pc>>

\* DropTableCommand.execute under confirm_action, handle_db_errors and log_time
DropTableCommand(name, response, mfault) ==
    IF ConfirmAction(response) = "run"
    THEN DropTable(name, mfault)
    ELSE Cancel("drop_table", name, response)

\* DeleteCommand.execute under confirm_action, handle_db_errors and log_time
DeleteCommand(name, where_clause, response, fault) ==
    IF ConfirmAction(response) = "run"
    THEN \/ Delete(name, where_clause, fault)
         \/ fault = NoFault /\ NotFound("delete", name)
    ELSE fault = NoFault /\ Cancel("delete", name, response)

Next ==
    \/ Tick
    \/ \E name \in TableNames, columns \in ColumnLists : CreateTable(name, columns, NoFault)
    \/ \E name \in TableNames, response \in Responses : DropTableCommand(name, response, NoFault)
    \/ \E name \in TableNames, values \in ValueLists, fault \in CommandFaults :
           Insert(name, values, fault, NoFault)
    \/ \E name \in TableNames, conditions \in WhereClauses : Select(name, conditions)
    \/ \E name \in TableNames, set_clause \in SetClauses, where_clause \in WhereClauses,
          fault \in CommandFaults : Update(name, set_clause, where_clause, fault)
    \/ \E name \in TableNames, where_clause \in WhereClauses, response \in Responses,
          fault \in CommandFaults : DeleteCommand(name, where_clause, response, fault)
    \/ \E name \in TableNames, op \in {"insert", "select"} : NotFound(op, name)

Spec == Init /\ [][Next]_vars

(***************************************************************************)
(* SchemaSpec: the commands on tables created from column lists that name  *)
(* ID themselves, with a record store that does not fail.                  *)
(***************************************************************************)
\* the value lists insert is given in SchemaSpec
IdValueLists == { <<IntV(2)>>, <<StrV("a")>>, <<StrV("a"), IntV(1)>> }

\* the set maps update is given in SchemaSpec
IdSetClauses == { <<Assign("ID", IntV(1))>>, <<Assign("name", StrV("b"))>> }

\* the conditions of SchemaSpec
IdWhereClauses == { <<>>, <<Cond("ID", "=", IntV(1))>> }

SchemaNext ==
    \/ Tick
    \/ \E name \in TableNames, columns \in ColumnLists \cup IdColumnLists :
           CreateTable(name, columns, NoFault)
    \/ \E name \in TableNames : DropTable(name, NoFault)
    \/ \E name \in TableNames, values \in IdValueLists : Insert(name, values, NoFault, NoFault)
    \/ \E name \in TableNames, conditions \in IdWhereClauses : Select(name, conditions)
    \/ \E name \in TableNames, set_clause \in IdSetClauses, where_clause \in IdWhereClauses :
           Update(name, set_clause, where_clause, NoFault)
    \/ \E name \in TableNames, where_clause \in IdWhereClauses : Delete(name, where_clause, NoFault)

SchemaSpec == Init /\ [][SchemaNext]_vars

(***************************************************************************)
(* MetadataSpec: a caller of JsonMetadataStorage.                          *)
(***************************************************************************)
\* the schemas a direct metadata save is given
SampleSchemas ==
    { <<>> } \cup
    { name :> TableToDict(TableInit(columns, next_id)) :
        name \in TableNames, columns \in ColumnLists \cup IdColumnLists,
        next_id \in 1..(MaxId + 1) }

\* the metadata file a process finds: none, or one damaged outside the program
MetadataInit ==
    /\ now = 0
    /\ files = [t \in TableNames |-> NoFile]
    /\ tmps = [t \in TableNames |-> NoFile]
    /\ cache = [t \in TableNames |-> NoEntry]
    /\ meta \in {NoMeta, MetaGarbage, MetaUndecodable}
    /\ metaTmp = NoMeta
    /\ tables = <<>>
    /\ res = NoResult
    /\ lastSaved = [t \in TableNames |-> NoSave]
    /\ assigned = [t \in TableNames |-> [fresh |-> FALSE, ids |-> <<>>]]
    /\ pc = Idle

\* Database.__init__: the registry is read from the metadata file
NewDatabase ==
    /\ tables' = LoadMetadata(meta)
    /\ res' = Result("Database", "", TRUE, "", Cardinality(DOMAIN LoadMetadata(meta)), FALSE)
    /\ UNCHANGED <<now, files, tmps, cache, meta, metaTmp, lastSaved, assigned, pc>>

MetadataNext ==
    \/ \E doc \in SampleSchemas, fault \in MetaFaults : MetadataSave(doc, fault)
    \/ MetadataLoad
    \/ NewDatabase

MetadataSpec == MetadataInit /\ [][MetadataNext]_vars

(***************************************************************************)
(* CrashSpec: the two save methods one file-system call at a time.  Every  *)
(* call may fail, the failure taking the method to its except branch, and  *)
(* the process may stop between any two calls.                             *)
(***************************************************************************)
At(step) == [pc EXCEPT !.at = step]

\* the row lists and the schemas the saves of CrashSpec are given
CrashRowLists == { rows \in RowLists : \A i \in DOMAIN rows : rows[i]["ID"] = IntV(i) }

CrashSchemas == { doc \in SampleSchemas : \A name \in DOMAIN doc :
                      doc[name].next_id = 1 /\ doc[name].columns[1].name = "ID" }

TableSteps == {"snapshot", "open", "dump", "replace", "failed", "rollback", "unlink"}

MetaSteps == {"meta_open", "meta_dump", "meta_replace", "meta_unlink"}

\* CachedJsonTableStorage.save is called
SaveBegin(t, rows) ==
    /\ pc.at = "idle"
    /\ pc' = [at |-> "snapshot", table |-> t, data |-> rows, doc |-> <<>>, backup |-> NoSave,
              start |-> files[t]]
    /\ UNCHANGED <<now, files, tmps, cache, meta, metaTmp, tables, res, lastSaved, assigned>>

\* the read of the rollback snapshot; an IOError leaves backup_data = []
SaveSnapshot(ok) ==
    /\ pc.at = "snapshot"
    /\ pc' = [pc EXCEPT !.at = "open",
                        !.backup = Backup(files[pc.table],
                                          [NoFault EXCEPT !.backup = IF ok THEN "ok" ELSE "ioerr"])]
    /\ UNCHANGED <<now, files, tmps, cache, meta, metaTmp, tables, res, lastSaved, assigned>>

\* open(temp_file, "w"): the temporary file exists and is empty
SaveOpenTemp(ok) ==
    /\ pc.at = "open"
    /\ tmps' = IF ok THEN [tmps EXCEPT ![pc.table] = Garbage] ELSE tmps
    /\ pc' = At(IF ok THEN "dump" ELSE "failed")
    /\ UNCHANGED <<now, files, cache, meta, metaTmp, tables, res, lastSaved, assigned>>

\* json.dump into the temporary file and its close
SaveDump(ok) ==
    /\ pc.at = "dump"
    /\ tmps' = IF ok THEN [tmps EXCEPT ![pc.table] = JsonFile(JsonDump(pc.data))] ELSE tmps
    /\ pc' = At(IF ok THEN "replace" ELSE "failed")
    /\ UNCHANGED <<now, files, cache, meta, metaTmp, tables, res, lastSaved, assigned>>

\* temp_file.replace(filepath), then the cache entry is deleted and True returned
SaveReplace(ok) ==
    /\ pc.at = "replace"
    /\ IF ok
       THEN /\ files' = [files EXCEPT ![pc.table] = tmps[pc.table]]
            /\ tmps' = [tmps EXCEPT ![pc.table] = NoFile]
            /\ cache' = [cache EXCEPT ![pc.table] = NoEntry]
            /\ res' = Result("save", pc.table, TRUE, "", 0, TRUE)
            /\ pc' = Idle
       ELSE /\ pc' = At("failed")
            /\ UNCHANGED <<files, tmps, cache, res>>
    /\ UNCHANGED <<now, meta, metaTmp, tables, lastSaved, assigned>>

\* the except branch: open(filepath, "w") truncates the canonical file
RollbackOpen(ok) ==
    /\ pc.at = "failed"
    /\ IF pc.backup.some /\ Exists(files[pc.table])
       THEN /\ files' = IF ok THEN [files EXCEPT ![pc.table] = Garbage] ELSE files
            /\ pc' = At(IF ok THEN "rollback" ELSE "unlink")
       ELSE /\ ok
            /\ pc' = At("unlink")
            /\ UNCHANGED files
    /\ UNCHANGED <<now, tmps, cache, meta, metaTmp, tables, res, lastSaved, assigned>>

\* the except branch: json.dump(backup_data) into the canonical file; an
\* exception is passed over
RollbackDump(ok) ==
    /\ pc.at = "rollback"
    /\ files' = IF ok THEN [files EXCEPT ![pc.table] = JsonFile(JsonDump(pc.backup.data))]
                ELSE files
    /\ pc' = At("unlink")
    /\ UNCHANGED <<now, tmps, cache, meta, metaTmp, tables, res, lastSaved, assigned>>

\* the except branch: temp_file.unlink() when it exists, then StorageError
SaveUnlink(ok) ==
    /\ pc.at = "unlink"
    /\ Exists(tmps[pc.table]) \/ ok
    /\ tmps' = IF ok THEN [tmps EXCEPT ![pc.table] = NoFile] ELSE tmps
    /\ res' = Result("save", pc.table, FALSE, "StorageError", 0, TRUE)
    /\ pc' = Idle
    /\ UNCHANGED <<now, files, cache, meta, metaTmp, tables, lastSaved, assigned>>

\* JsonMetadataStorage.save is called
MetaBegin(doc) ==
    /\ pc.at = "idle"
    /\ pc' = [at |-> "meta_open", table |-> "", data |-> <<>>, doc |-> doc, backup |-> NoSave,
              start |-> meta]
    /\ UNCHANGED <<now, files, tmps, cache, meta, metaTmp, tables, res, lastSaved, assigned>>

\* open(temp_file, "w")
MetaOpenTemp(ok) ==
    /\ pc.at = "meta_open"
    /\ metaTmp' = IF ok THEN MetaGarbage ELSE metaTmp
    /\ pc' = At(IF ok THEN "meta_dump" ELSE "meta_unlink")
    /\ UNCHANGED <<now, files, tmps, cache, meta, tables, res, lastSaved, assigned>>

\* json.dump into the temporary file and its close
MetaDump(ok) ==
    /\ pc.at = "meta_dump"
    /\ metaTmp' = IF ok THEN MetaFile(pc.doc) ELSE metaTmp
    /\ pc' = At(IF ok THEN "meta_replace" ELSE "meta_unlink")
    /\ UNCHANGED <<now, files, tmps, cache, meta, tables, res, lastSaved, assigned>>

\* temp_file.replace(self.filepath), then True is returned
MetaReplace(ok) ==
    /\ pc.at = "meta_replace"
    /\ IF ok
       THEN /\ meta' = metaTmp
            /\ metaTmp' = NoMeta
            /\ res' = Result("meta_save", "", TRUE, "", 0, FALSE)
            /\ pc' = Idle
       ELSE /\ pc' = At("meta_unlink")
            /\ UNCHANGED <<meta, metaTmp, res>>
    /\ UNCHANGED <<now, files, tmps, cache, tables, lastSaved, assigned>>

\* the except branch: temp_file.unlink() when it exists, then StorageError
MetaUnlink(ok) ==
    /\ pc.at = "meta_unlink"
    /\ metaTmp.kind # "absent" \/ ok
    /\ metaTmp' = IF ok THEN NoMeta ELSE metaTmp
    /\ res' = Result("meta_save", "", FALSE, "StorageError", 0, FALSE)
    /\ pc' = Idle
    /\ UNCHANGED <<now, files, tmps, cache, meta, tables, lastSaved, assigned>>

\* the process stops in the middle of a save; the files stay as they are
Stop ==
    /\ pc.at # "idle"
    /\ pc' = Idle
    /\ cache' = [t \in TableNames |-> NoEntry]
    /\ res' = NoResult
    /\ UNCHANGED <<now, files, tmps, meta, metaTmp, tables, lastSaved, assigned>>

CrashNext ==
    \/ \E t \in TableNames, rows \in CrashRowLists : SaveBegin(t, rows)
    \/ \E ok \in BOOLEAN : SaveSnapshot(ok)
    \/ \E ok \in BOOLEAN : SaveOpenTemp(ok)
    \/ \E ok \in BOOLEAN : SaveDump(ok)
    \/ \E ok \in BOOLEAN : SaveReplace(ok)
    \/ \E ok \in BOOLEAN : RollbackOpen(ok)
    \/ \E ok \in BOOLEAN : RollbackDump(ok)
    \/ \E ok \in BOOLEAN : SaveUnlink(ok)
    \/ \E doc \in CrashSchemas : MetaBegin(doc)
    \/ \E ok \in BOOLEAN : MetaOpenTemp(ok)
    \/ \E ok \in BOOLEAN : MetaDump(ok)
    \/ \E ok \in BOOLEAN : MetaReplace(ok)
    \/ \E ok \in BOOLEAN : MetaUnlink(ok)
    \/ Stop

CrashSpec == StorageInit /\ [][CrashNext]_vars

(***************************************************************************)
(* ValueSpec: Row and the value-level methods of Table, called directly: a *)
(* behaviour begins with a call to make and its step makes it.  res.args   *)
(* keeps the arguments of the call and res.value what it built.            *)
(***************************************************************************)
\* Row.__setitem__: err ("" when the assignment is made) and the row's data
RowSetItem(record, tb, column_name, value) ==
    IF ~HasColumn(tb, column_name)
    THEN [err |-> "KeyError", record |-> record]
    ELSE IF ~IsInstance(value, ColumnType(tb, column_name))
    THEN [err |-> "ValueError", record |-> record]
    ELSE [err |-> "", record |-> (column_name :> value) @@ record]

\* the column types
Types == {"int", "str", "bool"}

\* the values the calls are given
Values == { IntV(0), IntV(1), IntV(2), StrV("1"), StrV("a"), StrV("yes"), StrV("YES"),
            StrV("no"), BoolV(TRUE), BoolV(FALSE) }

\* tables of one declared column c, of each type
OneColumnTables == { TableInit(<<Column("c", type)>>, 1) : type \in Types }

\* the dicts Row is constructed from: with a value for c, without one, and
\* with a key that is no column
RowRecords == { ("ID" :> IntV(1)) @@ ("c" :> v) : v \in Values } \cup
              { ("ID" :> IntV(1)) } \cup
              { ("ID" :> IntV(1)) @@ ("c" :> v) @@ ("x" :> IntV(0)) : v \in {IntV(1), StrV("a")} }

\* the table and the stored records select filters
PeopleTable == TableInit(<<Column("name", "str"), Column("age", "int")>>, 1)

PeopleRecords == { [ID |-> IntV(1), name |-> StrV("a"), age |-> IntV(1)],
                   [ID |-> IntV(2), name |-> StrV("b"), age |-> IntV(2)],
                   [ID |-> IntV(3), name |-> StrV("b")] }

PeopleLists == UNION { [1..k -> PeopleRecords] : k \in 1..MaxRows }

\* the operators of a condition
WHERE_OPERATORS == {"=", "!=", "<", ">", "<=", ">="}

\* conditions of one and of two entries; the value of each is of its column's type
PeopleConditions ==
    { <<Cond("age", operator, IntV(2))>> : operator \in WHERE_OPERATORS } \cup
    { <<Cond("name", operator, StrV("b"))>> : operator \in WHERE_OPERATORS } \cup
    { <<Cond("name", "=", StrV("b")), Cond("age", operator, IntV(2))>> :
        operator \in {"=", "<", ">="} } \cup
    { <<Cond("zip", "=", IntV(1))>>, <<Cond("name", "<", IntV(1))>> }

\* the calls: a method's name and the arguments it is called with
Calls ==
    { <<"validate_row_data", tb, values>> :
        tb \in OneColumnTables, values \in {<<>>} \cup { <<v>> : v \in Values } } \cup
    { <<"set_clause", tb, [ID |-> IntV(1), c |-> w], <<Assign("c", v)>>>> :
        tb \in OneColumnTables, v \in Values, w \in Values } \cup
    { <<"Row", tb, record>> : tb \in OneColumnTables, record \in RowRecords } \cup
    { call \in { <<"Row.__setitem__", tb, record, column_name, value>> :
                   tb \in OneColumnTables, record \in RowRecords,
                   column_name \in {"c", "ID", "x"}, value \in Values } :
        RowValidate(call[3], call[2]) = "" } \cup
    { <<"Table.select", PeopleTable, data, conditions>> :
        data \in PeopleLists, conditions \in PeopleConditions }

\* a call that is to be made
Call(call) ==
    [Result("call", "", TRUE, "", 0, FALSE) EXCEPT !.args = call]

Called(method) ==
    res.op = "call" /\ res.args[1] = method

ValueInit ==
    /\ now = 0
    /\ files = [t \in TableNames |-> NoFile]
    /\ tmps = [t \in TableNames |-> NoFile]
    /\ cache = [t \in TableNames |-> NoEntry]
    /\ meta = NoMeta
    /\ metaTmp = NoMeta
    /\ tables = <<>>
    /\ \E call \in Calls : res = Call(call)
    /\ lastSaved = [t \in TableNames |-> NoSave]
    /\ assigned = [t \in TableNames |-> [fresh |-> FALSE, ids |-> <<>>]]
    /\ pc = Idle

\* Table.validate_row_data(values)
ValidateRow(tb, values) ==
    /\ Called("validate_row_data")
    /\ \E v \in {ValidateRowData(tb, values)} :
          /\ res' = [Result("validate_row_data", "", v.ok, IF v.ok THEN "" ELSE "ValueError", 0, FALSE)
                       EXCEPT !.args = <<tb, values>>, !.value = v.row]
          /\ UNCHANGED <<now, files, tmps, cache, meta, metaTmp, tables, lastSaved, assigned, pc>>

\* Table.update, the assignments of set_clause to one matched record
SetRecord(tb, record, set_clause) ==
    /\ Called("set_clause")
    /\ \E a \in {ApplySet(record, tb, set_clause, 1)} :
          /\ res' = [Result("set_clause", "", a.ok, IF a.ok THEN "" ELSE "ValueError", 0, FALSE)
                       EXCEPT !.args = <<tb, record, set_clause>>, !.value = a.record]
          /\ UNCHANGED <<now, files, tmps, cache, meta, metaTmp, tables, lastSaved, assigned, pc>>

\* Row(record, tb.columns)
NewRow(tb, record) ==
    /\ Called("Row")
    /\ \E err \in {RowValidate(record, tb)} :
          /\ res' = [Result("Row", "", err = "", err, 0, FALSE)
                       EXCEPT !.args = <<tb, record>>, !.value = record]
          /\ UNCHANGED <<now, files, tmps, cache, meta, metaTmp, tables, lastSaved, assigned, pc>>

\* row[column_name] = value on a Row that was constructed
SetItem(tb, record, column_name, value) ==
    /\ Called("Row.__setitem__")
    /\ RowValidate(record, tb) = ""
    /\ \E r \in {RowSetItem(record, tb, column_name, value)} :
          /\ res' = [Result("Row.__setitem__", "", r.err = "", r.err, 0, FALSE)
                       EXCEPT !.args = <<tb, record, column_name, value>>, !.value = r.record]
          /\ UNCHANGED <<now, files, tmps, cache, meta, metaTmp, tables, lastSaved, assigned, pc>>

\* Table.select(conditions) on a table whose file holds data
SelectRows(tb, data, conditions) ==
    /\ Called("Table.select")
    /\ \E o \in {TableSelect(tb, JsonFile(JsonDump(data)), NoFile, NoEntry, 0, conditions)} :
          /\ res' = [Result("Table.select", "", o.ok, o.err, Len(o.rows), FALSE)
                       EXCEPT !.args = <<tb, data, conditions>>, !.value = o.rows]
          /\ UNCHANGED <<now, files, tmps, cache, meta, metaTmp, tables, lastSaved, assigned, pc>>

ValueNext ==
    \/ ValidateRow(res.args[2], res.args[3])
    \/ SetRecord(res.args[2], res.args[3], res.args[4])
    \/ NewRow(res.args[2], res.args[3])
    \/ SetItem(res.args[2], res.args[3], res.args[4], res.args[5])
    \/ SelectRows(res.args[2], res.args[3], res.args[4])

ValueSpec == ValueInit /\ [][ValueNext]_vars

(***************************************************************************)
(* Properties of the stores, the tables and the database.                  *)
(***************************************************************************)
\* C1: on a table created while no data file of its name exists, the k-th
\* successful insert returns ID k, so the IDs returned are 1..N in insertion
\* order and next_id is N + 1; checked under SchemaSpec.
C1_InsertReturnsIdsInSequence ==
    \A name \in DOMAIN tables :
        assigned[name].fresh =>
            /\ assigned[name].ids = [k \in 1..Len(assigned[name].ids) |-> IntV(k)]
            /\ tables[name].next_id = Len(assigned[name].ids) + 1

\* C2: once a save of table t has succeeded, every load of t from then on
\* returns the rows of the most recent successful save; checked under
\* StorageSpec.
C2_LoadReturnsLastSavedContent ==
    \A t \in TableNames :
        lastSaved[t].some => Load(files[t], cache[t], now).data = lastSaved[t].data

\* C3: round trip: a load that immediately follows a successful save(t, rows)
\* returns a list equal to rows, the same records in the same order; checked
\* under StorageSpec.
C3_SaveThenLoadRoundTrip ==
    \A t \in TableNames :
        (res.op = "save" /\ res.ok /\ res.table = t) =>
            Load(files[t], cache[t], now).data = lastSaved[t].data

\* a successful save of MaxRows-many or more records, one of them holding a bool
C3_Witness_SavedTwoRecords ==
    \E t \in TableNames :
        /\ res.op = "save" /\ res.ok /\ res.table = t
        /\ Len(lastSaved[t].data) >= 2
        /\ \E i \in DOMAIN lastSaved[t].data : "ok" \in DOMAIN lastSaved[t].data[i]

\* C4: in every reachable state, select with no condition returns exactly the
\* rows the table's file holds, in the file's order.
C4_SelectReturnsPersistedRows ==
    \A name \in DOMAIN tables :
        LET o == TableSelect(tables[name], files[name], tmps[name], cache[name], now, <<>>)
        IN o.ok /\ o.rows = Collection(files[name])

\* the number of rows of data matching all the conditions (all rows for none)
Matching(data, where_clause) ==
    Cardinality({ i \in DOMAIN data :
                    where_clause = <<>> \/ MatchesConditions(data[i], where_clause) = "true" })

\* no comparison of the conditions raises on a row of data
Comparable(data, where_clause) ==
    \A i \in DOMAIN data : where_clause = <<>> \/ MatchesConditions(data[i], where_clause) # "error"

\* C5: update returns the number of rows of the collection it loaded that
\* match all the conditions (of all rows when there is no condition); when no
\* row matches it returns 0, calls no save and leaves the files as they are.
C5_UpdateCountsMatchingRows ==
    \A name \in DOMAIN tables, set_clause \in SetClauses, where_clause \in WhereClauses,
       fault \in CommandFaults :
        LET l == Load(files[name], cache[name], now)
            o == TableUpdate(tables[name], files[name], tmps[name], cache[name], now,
                             set_clause, where_clause, fault)
        IN /\ o.ok => o.count = Matching(l.data, where_clause)
           /\ (Comparable(l.data, where_clause) /\ Matching(l.data, where_clause) = 0) =>
                  /\ o.ok /\ o.count = 0 /\ ~o.saved
                  /\ o.file = files[name] /\ o.tmp = tmps[name]

\* an update has returned 1 on a table of two rows
C5_Witness_UpdatedOneOfTwo ==
    /\ res.op = "update" /\ res.ok /\ res.n = 1 /\ res.saved
    /\ Len(Collection(files[res.table])) = 2

C7_DropRemovesSchemaAndRecords ==
    (res.op = "drop_table" /\ res.ok) =>
        /\ res.table \notin DOMAIN tables
        /\ ~Exists(files[res.table])

\* C8: a save that fails at any step of the write raises StorageError, leaves
\* no temporary file, and leaves in the canonical file the collection it held
\* before the call, which a later load returns; checked under StorageSpec for
\* the failures in which the removal of the temporary file itself works.
C8_FailedSaveRestoresFile ==
    [][\A t \in TableNames, rows \in RowLists, fault \in TableFaults \ {NoFault} :
           (fault.unlink = "ok" /\ StorageSave(t, rows, fault)) =>
               /\ ~res'.ok /\ res'.err = "StorageError"
               /\ tmps'[t] = NoFile
               /\ Exists(files'[t]) = Exists(files[t])
               /\ Collection(files'[t]) = Collection(files[t])
               /\ Load(files'[t], NoEntry, now).data = Load(files[t], NoEntry, now).data]_vars

C10_CanonicalFileNeverPartial ==
    /\ pc.at \in TableSteps =>
           files[pc.table] \in {pc.start, JsonFile(JsonDump(pc.data))}
    /\ pc.at \in MetaSteps => meta \in {pc.start, MetaFile(pc.doc)}

\* C11: a command whose operation raised an error of the taxonomy (validation,
\* schema conflict, not found, storage) returns a CommandResult whose success
\* is false; execute returns nothing else and lets no such error out.
C11_ErrorsBecomeFailedResults ==
    (res.op \in CommandOps /\ ~res.ok /\ res.err \in Exceptions) =>
        res.returned = "CommandResult" /\ ~res.success

\* C12: drop table and delete, given an answer that is not affirmative (or none
\* at all), return a "cancelled" CommandResult and leave the registry, the
\* persisted metadata, the stored collections and the cache as they were.
C12_CancelledCommandChangesNothing ==
    [][\A op \in {"drop_table", "delete"}, name \in TableNames, response \in Responses :
          Cancel(op, name, response) =>
              /\ res'.returned = "CommandResult" /\ ~res'.success
              /\ UNCHANGED <<files, tmps, cache, meta, metaTmp, tables>>]_vars

\* C13: every table of the registry has ID:int as its first column and no
\* other column named ID, whatever column list it was created from; checked
\* under SchemaSpec.
C13_FirstColumnIsId ==
    \A name \in DOMAIN tables :
        LET columns == tables[name].columns
        IN /\ columns[1] = Column("ID", "int")
           /\ Cardinality({ i \in DOMAIN columns : columns[i].name = "ID" }) = 1

\* C14: a Row that was constructed, and a Row after an assignment that was
\* made, has exactly the table's column names as keys and, for every column, a
\* value whose runtime type is the column's declared type (a bool is no int);
\* checked under ValueSpec.
C14_RowMatchesSchema ==
    (res.op \in {"Row", "Row.__setitem__"} /\ res.ok) =>
        LET columns == res.args[1].columns
        IN /\ DOMAIN res.value = { columns[i].name : i \in DOMAIN columns }
           /\ \A i \in DOMAIN columns :
                 columns[i].name \in DOMAIN res.value =>
                     res.value[columns[i].name].t = columns[i].type

\* C15: next_id is at least 1, no step lowers the next_id of a table, and a
\* successful insert returns the next_id the table had when it began; checked
\* under SchemaSpec.
C15_NextIdNeverDecreases ==
    [][/\ \A name \in DOMAIN tables' : tables'[name].next_id >= 1
       /\ \A name \in DOMAIN tables \cap DOMAIN tables' :
             tables'[name].next_id >= tables[name].next_id
       /\ \A name \in TableNames, values \in IdValueLists :
             (Insert(name, values, NoFault, NoFault) /\ res'.ok) =>
                 res'.n = tables[name].next_id]_vars

\* C16: create_table with a name that is in the registry raises
\* TableAlreadyExistsError and leaves the registry (the table's columns and
\* next_id), the persisted metadata and the record store unchanged.
C16_DuplicateCreateChangesNothing ==
    [][\A name \in TableNames, columns \in ColumnLists :
          (name \in DOMAIN tables /\ CreateTable(name, columns, NoFault)) =>
              /\ ~res'.ok /\ res'.err = "TableAlreadyExistsError"
              /\ UNCHANGED <<tables, meta, metaTmp, files, tmps, cache>>]_vars

C16_Witness_DuplicateOfUsedTable ==
    /\ res.op = "create_table" /\ ~res.ok
    /\ "users" \in DOMAIN tables /\ tables["users"].next_id = 2
    /\ meta.kind = "json" /\ meta.doc["users"].next_id = 2

\* C17: an insert that fails (wrong value count, a value that cannot be
\* coerced, or StorageError from the save) leaves next_id, the stored
\* collection and what loads return from then on unchanged; next_id moves only
\* when the collection with the new row has been persisted.
C17_FailedInsertChangesNothing ==
    [][\A name \in TableNames, values \in ValueLists, fault \in CommandFaults :
          Insert(name, values, fault, NoFault) =>
              /\ ~res'.ok =>
                    /\ tables' = tables
                    /\ Collection(files'[name]) = Collection(files[name])
                    /\ \A time \in now..(MaxTime + cache_ttl) :
                          Load(files'[name], cache'[name], time).data
                              = Load(files[name], cache[name], time).data
              /\ tables'[name].next_id # tables[name].next_id =>
                    /\ res'.ok
                    /\ Len(Collection(files'[name])) > 0
                    /\ Collection(files'[name])[Len(Collection(files'[name]))]["ID"].n = res'.n]_vars

\* C18: validate_row_data either raises ValueError or builds a row whose value
\* for the column has exactly the column's declared type; checked under
\* ValueSpec.
C18_InsertStoresDeclaredType ==
    (res.op = "validate_row_data" /\ Len(res.args[2]) = 1) =>
        IF res.ok
        THEN res.value["c"].t = ColumnType(res.args[1], "c")
        ELSE res.err = "ValueError"

\* C19: update coerces as insert does: for every column type and new value it
\* raises exactly when validate_row_data's conversion raises, and otherwise
\* stores the value that conversion gives; checked under ValueSpec.
C19_UpdateCoercesAsInsert ==
    res.op = "set_clause" =>
        LET tb == res.args[1]
            a == res.args[3][1]
            c == CoerceInsert(a.value, ColumnType(tb, a.column))
        IN /\ res.ok <=> c.ok
           /\ res.ok => res.value[a.column] = c.v

\* the operator semantics on two values of one kind
Holds(actual, operator, expected) ==
    LET eq == IF IsNumber(actual) THEN actual.n = expected.n ELSE actual.s = expected.s
        lt == IF IsNumber(actual) THEN actual.n < expected.n
              ELSE StrRank(actual.s) < StrRank(expected.s)
    IN CASE operator = "=" -> eq
         [] operator = "!=" -> ~eq
         [] operator = "<" -> lt
         [] operator = ">" -> ~lt /\ ~eq
         [] operator = "<=" -> lt \/ eq
         [] OTHER -> ~lt

\* the record has the column of every condition and satisfies every condition
Satisfies(record, conditions) ==
    \A i \in DOMAIN conditions :
        /\ conditions[i].column \in DOMAIN record
        /\ Holds(record[conditions[i].column], conditions[i].operator, conditions[i].value)

\* every condition compares values of one kind (numbers, or strings)
WellTyped(data, conditions) ==
    \A k \in DOMAIN data, i \in DOMAIN conditions :
        conditions[i].column \in DOMAIN data[k] =>
            IsNumber(data[k][conditions[i].column]) = IsNumber(conditions[i].value)

\* C20: select with conditions whose values are of their columns' kind, on
\* stored records of which those satisfying the conditions are rows of the
\* table, returns exactly the records that satisfy all the conditions, in
\* storage order; a record lacking the column of a condition is left out and
\* raises nothing; checked under ValueSpec.
C20_SelectReturnsSatisfyingRows ==
    (res.op = "Table.select" /\ WellTyped(res.args[2], res.args[3])) =>
        LET tb == res.args[1]
            conditions == res.args[3]
            Sat(record) == Satisfies(record, conditions)
            expected == SelectSeq(res.args[2], Sat)
        IN (\A k \in DOMAIN expected : RowValidate(expected[k], tb) = "") =>
               res.ok /\ res.value = expected

C20_Witness_OneOfTwoLacksColumn ==
    /\ res.op = "Table.select" /\ res.ok
    /\ Len(res.args[3]) = 2
    /\ Len(res.args[2]) = 2 /\ "age" \notin DOMAIN res.args[2][2]
    /\ res.value = <<res.args[2][1]>>

C22_CorruptFileLoadsEmpty ==
    \A name \in DOMAIN tables :
        files[name].kind = "garbage" =>
            LET l == Load(files[name], cache[name], now)
            IN /\ l.data = <<>>
               /\ \A values \in ValueLists :
                     LET v == ValidateRowData(tables[name], values)
                         o == TableInsert(tables[name], files[name], tmps[name], l.entry, now,
                                          values, NoFault)
                     IN v.ok => o.ok /\ o.file = JsonFile(JsonDump(<<v.row>>))

\* C23: a metadata load on a missing file, or on a file that fails to
\* deserialize, returns an empty schema and does not raise, and a Database
\* built on such a file starts with an empty registry; checked under
\* MetadataSpec.
C23_MetadataLoadNeverFails ==
    /\ (res.op = "meta_load" /\ meta.kind # "json") => res.ok /\ res.n = 0
    /\ (res.op = "Database" /\ meta.kind # "json") => tables = <<>>

\* C24: CachedJsonTableStorage.load is answered from the cache, whatever the
\* file holds, exactly when an entry exists whose age is strictly less than
\* cache_ttl; otherwise, when the backing file exists, the file is read and the
\* entry becomes the content read with the current time, and when no file
\* exists load returns the empty list and leaves the cache as it is; checked
\* under StorageSpec.
C24_LoadFromCacheIffFresh ==
    [][\A t \in TableNames :
           StorageLoad(t) =>
               LET entry == cache[t]
                   fresh == entry.present /\ now - entry.ts < cache_ttl
                   l == Load(files[t], entry, now)
               IN /\ cache'[t] = l.entry /\ res'.n = Len(l.data)
                  /\ l.hit <=> fresh
                  /\ fresh =>
                        /\ l.data = entry.data /\ l.entry = entry
                        /\ \A f \in {NoFile, Garbage, JsonFile(<<>>)} : Load(f, entry, now) = l
                  /\ (~fresh /\ files[t].kind # "absent") =>
                        /\ l.data = Collection(files[t])
                        /\ l.entry = Entry(Collection(files[t]), now)
                  /\ (~fresh /\ files[t].kind = "absent") =>
                        /\ l.data = <<>>
                        /\ l.entry = entry]_vars

\* C24 as the specification words it: every load that is not answered from
\* the cache leaves the entry holding the content read and the current time.
C24_Original_MissRefreshesEntry ==
    [][\A t \in TableNames :
           StorageLoad(t) =>
               LET entry == cache[t]
                   fresh == entry.present /\ now - entry.ts < cache_ttl
                   l == Load(files[t], entry, now)
               IN /\ cache'[t] = l.entry /\ res'.n = Len(l.data)
                  /\ l.hit <=> fresh
                  /\ fresh => l.data = entry.data /\ l.entry = entry
                  /\ ~fresh =>
                        /\ l.data = Collection(files[t])
                        /\ l.entry = Entry(Collection(files[t]), now)]_vars

\* a load at time 1 has read a file of records and refreshed the entry
C24_Witness_EntryRefreshed ==
    /\ res.op = "load" /\ res.n > 0 /\ now = 1
    /\ files[res.table].kind = "json"
    /\ cache[res.table] = Entry(Collection(files[res.table]), 1)

(***************************************************************************)
(* CommandParser.  A command text is a sequence of symbols: a run of       *)
(* letters, digits and underscores is one symbol, and every other          *)
(* character (a space, a quote, a comma, a colon, a bracket, a sign of an  *)
(* operator) is a symbol of its own.  No step of the parser cuts a run.    *)
(***************************************************************************)
\* "".join(text): the string a text stands for
RECURSIVE Str(_)
Str(text) == IF text = <<>> THEN "" ELSE Head(text) \o Str(Tail(text))

\* str.lstrip()
RECURSIVE LStrip(_)
LStrip(text) == IF text # <<>> /\ Head(text) = " " THEN LStrip(Tail(text)) ELSE text

\* str.rstrip()
RECURSIVE RStrip(_)
RStrip(text) ==
    IF text # <<>> /\ text[Len(text)] = " " THEN RStrip(SubSeq(text, 1, Len(text) - 1)) ELSE text

\* str.strip()
Strip(text) == RStrip(LStrip(text))

\* str.find(sep), counted from 1: 0 when sep does not occur in text
Find(text, sep) ==
    LET Starts(i) == i + Len(sep) - 1 <= Len(text) /\ SubSeq(text, i, i + Len(sep) - 1) = sep
    IN IF \E i \in 1..Len(text) : Starts(i)
       THEN CHOOSE i \in 1..Len(text) : Starts(i) /\ \A j \in 1..(i - 1) : ~Starts(j)
       ELSE 0

\* str.split(sep)
RECURSIVE Split(_, _)
Split(text, sep) ==
    LET i == Find(text, sep)
    IN IF i = 0 THEN <<text>>
       ELSE <<SubSeq(text, 1, i - 1)>> \o Split(SubSeq(text, i + Len(sep), Len(text)), sep)

\* " ".join(parts)
RECURSIVE JoinSpace(_)
JoinSpace(parts) ==
    IF parts = <<>> THEN <<>>
    ELSE IF Len(parts) = 1 THEN parts[1]
    ELSE parts[1] \o <<" ">> \o JoinSpace(Tail(parts))

\* [a.strip() for a in text.split(",") if a.strip()]
StrippedParts(text) ==
    LET parts == Split(text, <<",">>)
    IN SelectSeq([i \in DOMAIN parts |-> Strip(parts[i])], LAMBDA a : a # <<>>)

\* shlex.split(text, posix=True) from symbol i on: a space ends a token, a
\* quote opens a quoted part that the same quote closes (quoted is the quote
\* that is open, "" when none is) and is dropped, and a text that ends
\* inside a quoted part raises ValueError (ok = FALSE)
RECURSIVE ShlexFrom(_, _, _, _, _)
ShlexFrom(text, i, token, started, quoted) ==
    IF i > Len(text)
    THEN IF quoted # "" THEN [ok |-> FALSE, tokens |-> <<>>]
         ELSE [ok |-> TRUE, tokens |-> IF started THEN <<token>> ELSE <<>>]
    ELSE IF quoted # ""
    THEN IF text[i] = quoted THEN ShlexFrom(text, i + 1, token, TRUE, "")
         ELSE ShlexFrom(text, i + 1, Append(token, text[i]), TRUE, quoted)
    ELSE IF text[i] \in {"\"", "'"} THEN ShlexFrom(text, i + 1, token, TRUE, text[i])
    ELSE IF text[i] = " "
    THEN IF started
         THEN LET rest == ShlexFrom(text, i + 1, <<>>, FALSE, "")
              IN [ok |-> rest.ok, tokens |-> IF rest.ok THEN <<token>> \o rest.tokens ELSE <<>>]
         ELSE ShlexFrom(text, i + 1, <<>>, FALSE, "")
    ELSE ShlexFrom(text, i + 1, Append(token, text[i]), TRUE, "")

ShlexSplit(text) == ShlexFrom(text, 1, <<>>, FALSE, "")

\* What CommandParser.parse gives: a Command object (op is its class), None
\* for an empty input, or the ParseError it raises (ok = FALSE; error is the
\* message and name the text the message quotes):
\*   "split"       Ошибка разбора строки
\*   "unknown"     Неизвестная команда: '<name>'
\*   "syntax"      Синтаксис: ... of the command <name>
\*   "no_set"      Отсутствует SET в команде UPDATE
\*   "no_where"    Отсутствует WHERE в команде UPDATE
\*   "order"       Неправильный порядок в команде UPDATE
\*   "assignment"  Некорректное присваивание в SET: <name>
\*   "condition"   a condition text that holds no operator
Command(op, table_name, items, set_clause, conditions) ==
    [ok |-> TRUE, op |-> op, table_name |-> table_name, items |-> items,
     set_clause |-> set_clause, conditions |-> conditions, error |-> "", name |-> ""]

None == Command("None", "", <<>>, <<>>, <<>>)

ParseError(error, name) ==
    [ok |-> FALSE, op |-> "", table_name |-> "", items |-> <<>>,
     set_clause |-> <<>>, conditions |-> <<>>, error |-> error, name |-> name]

\* ValueParser.parse: a boolean (true or false in any case), an integer (an
\* optional leading minus, then digits), a quoted string (the quotes are
\* stripped), else the raw string
ValueParser(text) ==
    LET s == Str(text)
    IN CASE Lower(s) \in {"true", "false"} -> BoolV(Lower(s) = "true")
         [] IsNumeral(s) -> IntV(NumeralValue(s))
         [] Len(text) >= 2 /\ text[1] = "-" /\ IsNumeral(Str(Tail(text))) ->
              IntV(0 - NumeralValue(Str(Tail(text))))
         [] Len(text) >= 2 /\ text[1] \in {"\"", "'"} /\ text[Len(text)] = text[1] ->
              StrV(Str(SubSeq(text, 2, Len(text) - 1)))
         [] OTHER -> StrV(s)

\* WHERE_OPERATORS as the list it is, and the symbols of each operator
OperatorList == <<"=", "!=", "<", ">", "<=", ">=">>

OperatorSymbols(operator) ==
    CASE operator = "!=" -> <<"!", "=">>
      [] operator = "<=" -> <<"<", "=">>
      [] operator = ">=" -> <<">", "=">>
      [] OTHER -> <<operator>>

\* ConditionParser.parse: the first operator of the list that occurs in the
\* text splits it, at its first occurrence, into column, operator and value
ConditionParser(text) ==
    LET Occurs(k) == Find(text, OperatorSymbols(OperatorList[k])) # 0
    IN IF \A k \in DOMAIN OperatorList : ~Occurs(k) THEN [ok |-> FALSE, conditions |-> <<>>]
       ELSE LET k == CHOOSE k \in DOMAIN OperatorList :
                         Occurs(k) /\ \A j \in 1..(k - 1) : ~Occurs(j)
                symbols == OperatorSymbols(OperatorList[k])
                i == Find(text, symbols)
                column == Str(Strip(SubSeq(text, 1, i - 1)))
                value == ValueParser(Strip(SubSeq(text, i + Len(symbols), Len(text))))
            IN [ok |-> TRUE, conditions |-> <<Cond(column, OperatorList[k], value)>>]

\* _parse_create_table; items holds columns_def
ParseCreateTable(args) ==
    IF Len(args) < 2 THEN ParseError("syntax", "create_table")
    ELSE Command("create_table", Str(args[1]), Tail(args), <<>>, <<>>)

\* _parse_drop_table
ParseDropTable(args) ==
    IF Len(args) # 1 THEN ParseError("syntax", "drop_table")
    ELSE Command("drop_table", Str(args[1]), <<>>, <<>>, <<>>)

\* _parse_list_tables
ParseListTables(args) ==
    IF args # <<>> THEN ParseError("syntax", "list_tables")
    ELSE Command("list_tables", "", <<>>, <<>>, <<>>)

\* _parse_info
ParseInfo(args) ==
    IF Len(args) # 1 THEN ParseError("syntax", "info")
    ELSE Command("info", Str(args[1]), <<>>, <<>>, <<>>)

\* _parse_insert; items holds values
ParseInsert(args) ==
    IF Len(args) < 4 \/ Lower(Str(args[1])) # "into" \/ Lower(Str(args[3])) # "values"
    THEN ParseError("syntax", "insert")
    ELSE LET joined == JoinSpace(SubSeq(args, 4, Len(args)))
             values_str == IF joined # <<>> /\ Head(joined) = "(" /\ joined[Len(joined)] = ")"
                           THEN SubSeq(joined, 2, Len(joined) - 1)
                           ELSE joined
             vals == StrippedParts(values_str)
         IN Command("insert", Str(args[2]), [i \in DOMAIN vals |-> ValueParser(vals[i])],
                    <<>>, <<>>)

\* _parse_select; conditions = None is <<>>
ParseSelect(args) ==
    IF Len(args) < 2 \/ Lower(Str(args[1])) # "from" THEN ParseError("syntax", "select")
    ELSE IF Len(args) > 3 /\ Lower(Str(args[3])) = "where"
    THEN LET c == ConditionParser(JoinSpace(SubSeq(args, 4, Len(args))))
         IN IF c.ok THEN Command("select", Str(args[2]), <<>>, <<>>, c.conditions)
            ELSE ParseError("condition", "")
    ELSE Command("select", Str(args[2]), <<>>, <<>>, <<>>)

\* set_clause[col_name] = value on the list of pairs a dict is
DictSet(set_clause, column, value) ==
    IF \E j \in DOMAIN set_clause : set_clause[j].column = column
    THEN [j \in DOMAIN set_clause |->
             IF set_clause[j].column = column THEN Assign(column, value) ELSE set_clause[j]]
    ELSE Append(set_clause, Assign(column, value))

\* _parse_set_clause, the loop over assignments from the i-th on
RECURSIVE SetClauseFrom(_, _, _)
SetClauseFrom(assignments, i, set_clause) ==
    IF i > Len(assignments) THEN [ok |-> TRUE, set_clause |-> set_clause, name |-> ""]
    ELSE LET assignment == assignments[i]
             k == Find(assignment, <<"=">>)
             col_name == Str(Strip(SubSeq(assignment, 1, k - 1)))
             value_str == Strip(SubSeq(assignment, k + 1, Len(assignment)))
         IN IF k = 0 THEN [ok |-> FALSE, set_clause |-> <<>>, name |-> Str(assignment)]
            ELSE SetClauseFrom(assignments, i + 1,
                               DictSet(set_clause, col_name, ValueParser(value_str)))

\* _parse_set_clause
ParseSetClause(parts) == SetClauseFrom(StrippedParts(JoinSpace(parts)), 1, <<>>)

\* _parse_where_condition
ParseWhereCondition(condition_str) == ConditionParser(condition_str)

\* _parse_update; set_idx and where_idx count from 1, 0 is index() raising
ParseUpdate(args) ==
    LET args_lower == [i \in DOMAIN args |-> Lower(Str(args[i]))]
        Index(word) == IF \E i \in DOMAIN args : args_lower[i] = word
                       THEN CHOOSE i \in DOMAIN args :
                                /\ args_lower[i] = word
                                /\ \A j \in 1..(i - 1) : args_lower[j] # word
                       ELSE 0
        set_idx == Index("set")
        where_idx == Index("where")
    IN IF Len(args) < 6 THEN ParseError("syntax", "update")
       ELSE IF set_idx = 0 THEN ParseError("no_set", "")
       ELSE IF where_idx = 0 THEN ParseError("no_where", "")
       ELSE IF ~(1 < set_idx /\ set_idx < where_idx /\ where_idx <= Len(args))
       THEN ParseError("order", "")
       ELSE LET s == ParseSetClause(SubSeq(args, set_idx + 1, where_idx - 1))
                w == ParseWhereCondition(JoinSpace(SubSeq(args, where_idx + 1, Len(args))))
            IN IF ~s.ok THEN ParseError("assignment", s.name)
               ELSE IF ~w.ok THEN ParseError("condition", "")
               ELSE Command("update", Str(args[1]), <<>>, s.set_clause, w.conditions)

\* _parse_delete; conditions = None is <<>>
ParseDelete(args) ==
    IF Len(args) < 3 \/ Lower(Str(args[1])) # "from" THEN ParseError("syntax", "delete")
    ELSE IF Len(args) > 3 /\ Lower(Str(args[3])) = "where"
    THEN LET c == ConditionParser(JoinSpace(SubSeq(args, 4, Len(args))))
         IN IF c.ok THEN Command("delete", Str(args[2]), <<>>, <<>>, c.conditions)
            ELSE ParseError("condition", "")
    ELSE Command("delete", Str(args[2]), <<>>, <<>>, <<>>)

\* _parse_help
ParseHelp(args) == Command("help", "", <<>>, <<>>, <<>>)

\* _parse_exit
ParseExit(args) == Command("exit", "", <<>>, <<>>, <<>>)

\* _build_command_patterns: the keys, in the dict's order
command_patterns ==
    <<"create_table", "drop_table", "list_tables", "insert", "select", "update", "delete",
      "info", "help", "exit">>

\* parser_func(args) for the key cmd_key
ParserFunc(cmd_key, args) ==
    CASE cmd_key = "create_table" -> ParseCreateTable(args)
      [] cmd_key = "drop_table" -> ParseDropTable(args)
      [] cmd_key = "list_tables" -> ParseListTables(args)
      [] cmd_key = "insert" -> ParseInsert(args)
      [] cmd_key = "select" -> ParseSelect(args)
      [] cmd_key = "update" -> ParseUpdate(args)
      [] cmd_key = "delete" -> ParseDelete(args)
      [] cmd_key = "info" -> ParseInfo(args)
      [] cmd_key = "help" -> ParseHelp(args)
      [] OTHER -> ParseExit(args)

\* CommandParser.parse returning None for a first token that is no key
ParseIgnoresUnknown(input_string) ==
    IF Strip(input_string) = <<>> THEN None
    ELSE LET sh == ShlexSplit(input_string)
             tokens == sh.tokens
             command_name == Lower(Str(tokens[1]))
         IN IF ~sh.ok THEN ParseError("split", "")
            ELSE IF tokens = <<>> THEN None
            ELSE IF \E k \in DOMAIN command_patterns : command_patterns[k] = command_name
            THEN ParserFunc(command_name, Tail(tokens))
            ELSE None

\* CommandParser.parse
Parse(input_string) ==
    IF Strip(input_string) = <<>> THEN None
    ELSE LET sh == ShlexSplit(input_string)
             tokens == sh.tokens
             command_name == Lower(Str(tokens[1]))
             args == Tail(tokens)
             compound_cmd == Lower(Str(tokens[1])) \o " " \o Lower(Str(tokens[2]))
         IN IF ~sh.ok THEN ParseError("split", "")
            ELSE IF tokens = <<>> THEN None
            ELSE IF \E k \in DOMAIN command_patterns : command_patterns[k] = command_name
            THEN ParserFunc(command_name, args)
            ELSE IF Len(tokens) >= 2 /\ compound_cmd = "insert into"
            THEN ParseInsert(SubSeq(tokens, 3, Len(tokens)))
            ELSE IF Len(tokens) >= 2 /\ compound_cmd = "select from"
            THEN ParseSelect(SubSeq(tokens, 3, Len(tokens)))
            ELSE IF Len(tokens) >= 2 /\ compound_cmd = "delete from"
            THEN ParseDelete(SubSeq(tokens, 3, Len(tokens)))
            ELSE ParseError("unknown", command_name)

(***************************************************************************)
(* ParserSpec: the command loop of the engine, fed with command texts.     *)
(***************************************************************************)
\* CreateTableCommand.execute: the columns of columns_def (name:type)
ColumnsOf(columns_def) ==
    [i \in DOMAIN columns_def |->
        LET col_def == columns_def[i]
            k == Find(col_def, <<":">>)
        IN Column(Str(Strip(SubSeq(col_def, 1, k - 1))),
                  Str(Strip(SubSeq(col_def, k + 1, Len(col_def)))))]

\* the texts the user types, token by token
CreateTexts ==
    { << <<"create_table">>, <<"users">>, <<"name", ":", "str">>, <<"age", ":", "int">> >> }

DropTexts == { << <<"drop_table">>, <<"users">> >> }

InsertTexts ==
    { << <<"insert">>, <<"into">>, <<"users">>, <<"values">>,
         <<"(", "\"", "a", "\"", ",">>, <<"1", ")">> >>,
      << <<"insert">>, <<"into">>, <<"users">>, <<"values">>,
         <<"(", "\"", "b", "\"", ",">>, <<"2", ")">> >> }

\* select from users where age<op>1, written without and with spaces
CompactSelect(operator) ==
    << <<"select">>, <<"from">>, <<"users">>, <<"where">>,
       <<"age">> \o OperatorSymbols(operator) \o <<"1">> >>

SpacedSelect(operator) ==
    << <<"Select">>, <<"FROM">>, <<"users">>, <<"WHERE">>,
       <<"age">>, OperatorSymbols(operator), <<"1">> >>

SelectTexts ==
    { << <<"select">>, <<"from">>, <<"users">> >> } \cup
    { CompactSelect(OperatorList[k]) : k \in DOMAIN OperatorList } \cup
    { SpacedSelect(operator) : operator \in {"=", ">="} }

CompactUpdate == << <<"update">>, <<"users">>, <<"set">>, <<"age", "=", "2">>, <<"where">>,
                    <<"ID", "=", "1">> >>

SpacedUpdate == << <<"UPDATE">>, <<"users">>, <<"SET">>, <<"age">>, <<"=">>, <<"2">>,
                   <<"WHERE">>, <<"ID">>, <<"=">>, <<"1">> >>

UpdateTexts ==
    { CompactUpdate, SpacedUpdate,
      << <<"update">>, <<"users">>, <<"set">>, <<"age", "=", "2", ",", "name", "=", "b">>,
         <<"where">>, <<"ID", "=", "1">> >>,
      << <<"update">>, <<"users">>, <<"set">>, <<"age", "=", "2", ",">>, <<"name", "=", "b">>,
         <<"where">>, <<"ID">>, <<"=", "1">> >>,
      << <<"update">>, <<"users">>, <<"age">>, <<"=">>, <<"2">>, <<"where">>, <<"ID">>,
         <<"=">>, <<"1">> >> }

BareDelete == << <<"delete">>, <<"from">>, <<"users">> >>

DeleteTexts ==
    { BareDelete,
      << <<"delete">>, <<"from">>, <<"users">>, <<"where">> >>,
      << <<"delete">>, <<"from">>, <<"users">>, <<"where">>, <<"age", "=", "2">> >>,
      << <<"Delete">>, <<"FROM">>, <<"users">>, <<"WHERE">>, <<"ID">>, <<"=">>, <<"1">> >> }

\* texts whose first token is no key of command_patterns
UnknownTexts ==
    { << <<"frob">> >>,
      << <<"Frob">>, <<"users">> >>,
      << <<"remove">>, <<"from">>, <<"users">> >>,
      << <<"selectfrom">>, <<"users">> >> }

\* select and delete texts with tokens after the table name that are no
\* where clause
TrailingTexts ==
    { << <<"delete">>, <<"from">>, <<"users">>, <<"where">> >>,
      << <<"delete">>, <<"from">>, <<"users">>, <<"x">> >>,
      << <<"select">>, <<"from">>, <<"users">>, <<"where">> >>,
      << <<"select">>, <<"from">>, <<"users">>, <<"x">> >> }

\* the lines typed: the texts above, an empty line, a line of spaces, and a
\* line that ends inside a quoted part
Inputs ==
    { JoinSpace(tokens) : tokens \in CreateTexts \cup DropTexts \cup InsertTexts \cup SelectTexts
                                      \cup UpdateTexts \cup DeleteTexts \cup UnknownTexts
                                      \cup TrailingTexts } \cup
    { <<>>, <<" ", " ">>, <<"select", " ", "\"", "from">> }

\* DatabaseEngine._process_user_command: parse, then execute.  response is
\* what the user answers when the command asks for a confirmation.
ProcessUserCommand(user_input, response) ==
    \E command \in {Parse(user_input)} :
       /\ command.op \in {"drop_table", "delete"} \/ response = "y"
       /\ \/ /\ ~command.ok
             /\ res' = [Result("parse", "", FALSE, "ParseError", 0, FALSE)
                          EXCEPT !.args = <<command.error, command.name>>]
             /\ UNCHANGED <<now, files, tmps, cache, meta, metaTmp, tables, lastSaved,
                            assigned, pc>>
          \/ /\ command.ok /\ command.op = "None"
             /\ res' = Result("parse", "", TRUE, "", 0, FALSE)
             /\ UNCHANGED <<now, files, tmps, cache, meta, metaTmp, tables, lastSaved,
                            assigned, pc>>
          \/ /\ command.ok /\ command.op = "create_table"
             /\ command.table_name \in TableNames
             /\ \A i \in DOMAIN command.items : Find(command.items[i], <<":">>) # 0
             /\ CreateTable(command.table_name, ColumnsOf(command.items), NoFault)
          \/ /\ command.ok /\ command.op = "drop_table"
             /\ DropTableCommand(command.table_name, response, NoFault)
          \/ /\ command.ok /\ command.op = "insert"
             /\ \/ Insert(command.table_name, command.items, NoFault, NoFault)
                \/ NotFound("insert", command.table_name)
          \/ /\ command.ok /\ command.op = "select"
             /\ \/ Select(command.table_name, command.conditions)
                \/ NotFound("select", command.table_name)
          \/ /\ command.ok /\ command.op = "update"
             /\ \/ Update(command.table_name, command.set_clause, command.conditions, NoFault)
                \/ NotFound("update", command.table_name)
          \/ /\ command.ok /\ command.op = "delete"
             /\ DeleteCommand(command.table_name, command.conditions, response, NoFault)

ParserInit == StorageInit

\* the answers the user gives in ParserSpec
Answers == {"y", "n"}

ParserNext ==
    \E user_input \in Inputs, response \in Answers : ProcessUserCommand(user_input, response)

ParserSpec == ParserInit /\ [][ParserNext]_vars

\* C25: for every operator of WHERE_OPERATORS the condition text age<op>1 is
\* parsed into the condition of column age, that operator and value 1, so
\* that `select from users where age<op>1` returns the stored rows whose age
\* satisfies it (a two-character operator is not split into a shorter one);
\* checked under ParserSpec.
C25_ConditionKeepsOperator ==
    [][\A k \in DOMAIN OperatorList :
           LET text == JoinSpace(CompactSelect(OperatorList[k]))
               conditions == <<Cond("age", OperatorList[k], IntV(1))>>
               data == Load(files["users"], cache["users"], now).data
           IN (/\ "users" \in DOMAIN tables
               /\ res'.op \in {"select", "parse"}
               /\ ProcessUserCommand(text, "y")) =>
                 /\ Parse(text) = Command("select", "users", <<>>, <<>>, conditions)
                 /\ res'.ok
                 /\ res'.n = Cardinality({ i \in DOMAIN data : Satisfies(data[i], conditions) })]_vars

\* C26: the compact command text `update users set age=2 where ID=1` is
\* accepted by the parser and yields an Update command with the set map
\* {age: 2} and the condition ID = 1; on a table that stores a row of ID 1 the
\* command returns count 1 and the stored row's age becomes 2; checked under
\* ParserSpec.
C26_CompactUpdateAccepted ==
    [][LET text == JoinSpace(CompactUpdate)
           data == Load(files["users"], cache["users"], now).data
       IN (/\ "users" \in DOMAIN tables
           /\ res'.op \in {"update", "parse"}
           /\ ProcessUserCommand(text, "y")) =>
             /\ Parse(text) = Command("update", "users", <<>>, <<Assign("age", IntV(2))>>,
                                      <<Cond("ID", "=", IntV(1))>>)
             /\ res'.ok
             /\ (\E i \in DOMAIN data : data[i].ID = IntV(1)) =>
                   /\ res'.n = 1
                   /\ \E i \in DOMAIN Collection(files'["users"]) :
                         /\ Collection(files'["users"])[i].ID = IntV(1)
                         /\ Collection(files'["users"])[i].age = IntV(2)]_vars

\* C27: the command text `delete from users`, with nothing after the table
\* name, is accepted by the parser and yields a Delete command with no
\* condition, which the engine then executes; checked under ParserSpec.
C27_DeleteWithoutWhereAccepted ==
    [][\A response \in Answers :
           LET text == JoinSpace(BareDelete)
           IN (res'.op \in {"delete", "parse"} /\ ProcessUserCommand(text, response)) =>
                 /\ Parse(text) = Command("delete", "users", <<>>, <<>>, <<>>)
                 /\ res'.op = "delete"]_vars

\* the inputs that shlex splits into tokens the first of which, in any case,
\* is no key of command_patterns
UnknownInputs ==
    { user_input \in Inputs :
        LET sh == ShlexSplit(user_input)
        IN /\ sh.ok /\ sh.tokens # <<>>
           /\ \A k \in DOMAIN command_patterns : command_patterns[k] # Lower(Str(sh.tokens[1])) }

\* C28: for every input whose first token is, in any case, no key of
\* command_patterns, parse raises the ParseError of an unknown command, which
\* names that first token (in lower case, as it was compared); no Command is
\* built, and processing the input changes nothing of the database and its
\* files; checked under ParserSpec.
C28_UnknownCommandRejected ==
    [][\A user_input \in UnknownInputs :
           ProcessUserCommand(user_input, "y") =>
               LET first == Lower(Str(ShlexSplit(user_input).tokens[1]))
               IN /\ Parse(user_input) = ParseError("unknown", first)
                  /\ res'.op = "parse" /\ ~res'.ok /\ res'.err = "ParseError"
                  /\ res'.args = <<"unknown", first>>
                  /\ UNCHANGED <<now, files, tmps, cache, meta, metaTmp, tables, lastSaved,
                                 assigned, pc>>]_vars

\* `Frob users` was typed with a table stored: the error names frob
C28_Witness_UnknownNamed ==
    /\ res.op = "parse" /\ ~res.ok /\ res.args = <<"unknown", "frob">>
    /\ "users" \in DOMAIN tables /\ Collection(files["users"]) # <<>>

\* C29: in every state the commands of Spec reach, no two records of a
\* table's stored collection have the same ID.
C29_StoredIdsDistinct ==
    \A name \in TableNames :
        LET data == Collection(files[name])
        IN \A i, j \in DOMAIN data :
              ("ID" \in DOMAIN data[i] /\ "ID" \in DOMAIN data[j] /\ data[i].ID = data[j].ID) => i = j

(***************************************************************************)
(* RestartSpec: inserts whose metadata write may fail or may never be      *)
(* made because the process stops, and the process started again from the  *)
(* files.                                                                   *)
(***************************************************************************)
\* The process stops and is started again: Database.__init__ reads the
\* metadata file; the cache of the new store is empty.
Restart ==
    /\ tables' = LoadMetadata(meta)
    /\ cache' = [t \in TableNames |-> NoEntry]
    /\ res' = Result("Database", "", TRUE, "", Cardinality(DOMAIN LoadMetadata(meta)), FALSE)
    /\ UNCHANGED <<now, files, tmps, meta, metaTmp, lastSaved, assigned, pc>>

\* Table.insert up to the return of self._data_storage.save, where the
\* process stops; it is then started again
InsertStopped(name, values) ==
    /\ name \in DOMAIN tables
    /\ tables[name].next_id <= MaxId
    /\ Len(Load(files[name], cache[name], now).data) < MaxRows
    /\ \E o \in {TableInsert(tables[name], files[name], tmps[name], cache[name], now, values,
                             NoFault)} :
          /\ o.ok
          /\ files' = [files EXCEPT ![name] = o.file]
          /\ tmps' = [tmps EXCEPT ![name] = o.tmp]
    /\ tables' = LoadMetadata(meta)
    /\ cache' = [t \in TableNames |-> NoEntry]
    /\ res' = Result("Database", name, TRUE, "", Cardinality(DOMAIN LoadMetadata(meta)), TRUE)
    /\ UNCHANGED <<now, meta, metaTmp, lastSaved, assigned, pc>>

RestartNext ==
    \/ Tick
    \/ \E name \in TableNames, columns \in ColumnLists : CreateTable(name, columns, NoFault)
    \/ \E name \in TableNames, values \in ValueLists, mfault \in CommandMetaFaults :
           Insert(name, values, NoFault, mfault)
    \/ \E name \in TableNames, values \in ValueLists : InsertStopped(name, values)
    \/ \E name \in TableNames, conditions \in WhereClauses : Select(name, conditions)
    \/ Restart

RestartSpec == Init /\ [][RestartNext]_vars

\* C30: whenever the process may stop, the next_id the metadata file holds
\* for a table is greater than every ID of the table's stored collection;
\* checked under RestartSpec.
C30_PersistedNextIdAboveIds ==
    \A name \in DOMAIN LoadMetadata(meta) :
        LET data == Collection(files[name])
        IN \A i \in DOMAIN data :
              "ID" \in DOMAIN data[i] => data[i].ID.n < LoadMetadata(meta)[name].next_id

\* C31: in every reachable state of one process, a cache entry held for a
\* table has exactly the records of the table's persisted collection (what a
\* caller did to the list and records load returned does not show in it);
\* checked under Spec.
C31_CacheEqualsPersisted ==
    \A name \in TableNames :
        cache[name].present => cache[name].data = Collection(files[name])

\* C32: an update that raises ValueError on an assignment calls no save and
\* leaves the file as it was, and every load from then on returns the rows
\* that a load before the update returned; checked under Spec.
C32_FailedUpdateChangesNothing ==
    [][\A name \in TableNames, set_clause \in SetClauses, where_clause \in WhereClauses :
          (/\ res'.op = "update" /\ res'.err = "ValueError"
           /\ Update(name, set_clause, where_clause, NoFault)) =>
              /\ ~res'.saved
              /\ files' = files
              /\ \A time \in now..(MaxTime + cache_ttl) :
                    Load(files'[name], cache'[name], time).data
                        = Load(files[name], cache[name], time).data]_vars

(***************************************************************************)
(* TypedSpec: inserts, updates and selects on a table with an int and a    *)
(* bool column, with no I/O failure.                                       *)
(***************************************************************************)
TypedColumnLists == { <<Column("age", "int"), Column("ok", "bool")>> }

\* the value lists insert is given; the last one is refused
TypedValueLists == { <<IntV(1), BoolV(TRUE)>>, <<StrV("1"), StrV("yes")>>,
                     <<IntV(1), IntV(1)>>, <<StrV("a"), BoolV(FALSE)>> }

\* the set maps update is given, of one assignment each; the last one is
\* refused
TypedSetClauses == { <<Assign("ok", StrV("no"))>>, <<Assign("ok", IntV(0))>>,
                     <<Assign("age", IntV(2))>>, <<Assign("age", StrV("a"))>> }

TypedWhereClauses == { <<>>, <<Cond("ID", "=", IntV(1))>> }

TypedNext ==
    \/ Tick
    \/ \E name \in TableNames, columns \in TypedColumnLists : CreateTable(name, columns, NoFault)
    \/ \E name \in TableNames, values \in TypedValueLists : Insert(name, values, NoFault, NoFault)
    \/ \E name \in TableNames, set_clause \in TypedSetClauses, where_clause \in TypedWhereClauses :
           Update(name, set_clause, where_clause, NoFault)
    \/ \E name \in TableNames, conditions \in TypedWhereClauses : Select(name, conditions)

TypedSpec == Init /\ [][TypedNext]_vars

\* C33: after inserts and updates, every stored record of a table has a value
\* of the declared type for every column of the table, and select on the
\* table constructs its rows without a validation error; checked under
\* TypedSpec.
C33_StoredRecordsMatchSchema ==
    \A name \in DOMAIN tables :
        LET data == Collection(files[name])
        IN /\ \A i \in DOMAIN data : RowValidate(data[i], tables[name]) = ""
           /\ TableSelect(tables[name], files[name], tmps[name], cache[name], now, <<>>).ok

(***************************************************************************)
(* RegistrySpec: RestartSpec with create_table and drop_table whose        *)
(* metadata write may fail.                                                *)
(***************************************************************************)
RegistryNext ==
    \/ RestartNext
    \/ \E name \in TableNames, columns \in ColumnLists, mfault \in CommandMetaFaults :
           CreateTable(name, columns, mfault)
    \/ \E name \in TableNames, mfault \in CommandMetaFaults : DropTable(name, mfault)

RegistrySpec == Init /\ [][RegistryNext]_vars

\* C34: after a create_table, drop_table or insert that reported success, the
\* registry a Database would load from the metadata file equals the registry
\* in memory (names, columns and next_id); checked under RegistrySpec.
C34_PersistedMetadataEqualsRegistry ==
    (res.op \in {"create_table", "drop_table", "insert"} /\ res.ok) =>
        LoadMetadata(meta) = tables

\* C35: select with no condition on a table into which no insert has
\* succeeded since it was created returns no rows, whatever a dropped table
\* of the same name held and whether its rows were cached; checked under
\* Spec.
C35_RecreatedTableStartsEmpty ==
    [][\A name \in TableNames :
          (/\ res'.op = "select"
           /\ assigned[name].ids = <<>>
           /\ Select(name, <<>>)) => (res'.ok /\ res'.n = 0)]_vars

\* C36: a select or delete text with tokens after the table name that do not
\* form a where clause (`delete from users where`, `delete from users x`) is
\* refused with ParseError: no command is built from it and nothing is
\* selected or deleted; checked under ParserSpec.
C36_TrailingTokensRejected ==
    [][\A tokens \in TrailingTexts, response \in Answers :
          (/\ res'.op \in {"parse", "select", "delete"}
           /\ ProcessUserCommand(JoinSpace(tokens), response)) =>
              /\ ~Parse(JoinSpace(tokens)).ok
              /\ res'.op = "parse" /\ ~res'.ok /\ res'.err = "ParseError"
              /\ files' = files]_vars

(***************************************************************************)
(* SharedSpec: two processes on the same backing files.  Each has its own  *)
(* Database, so tables and cache are functions of the process; the files   *)
(* are shared.  A table created by an earlier run is in the metadata file  *)
(* and both processes have constructed their Database from it.             *)
(* assigned[p].ids are the IDs the inserts of process p returned.          *)
(***************************************************************************)
Procs == {1, 2}

\* the rows the shared table file may hold
MaxSharedRows == 3

SharedInit ==
    /\ now = 0
    /\ files = [t \in TableNames |-> NoFile]
    /\ tmps = [t \in TableNames |-> NoFile]
    /\ \E columns \in ColumnLists :
          meta = SaveMetadata([t \in TableNames |-> TableInit(columns, 1)], NoMeta, NoMeta,
                              NoFault).file
    /\ metaTmp = NoMeta
    /\ tables = [p \in Procs |-> LoadMetadata(meta)]
    /\ cache = [p \in Procs |-> [t \in TableNames |-> NoEntry]]
    /\ res = NoResult
    /\ lastSaved = [t \in TableNames |-> NoSave]
    /\ assigned = [p \in Procs |-> [fresh |-> TRUE, ids |-> <<>>]]
    /\ pc = Idle

\* Table.insert of a process that constructs its Database from the metadata
\* file before every insert
SharedInsertReloads(p, name, values) ==
    /\ LoadMetadata(meta)[name].next_id <= MaxId + 1
    /\ Len(Collection(files[name])) < MaxSharedRows
    /\ \E o \in {TableInsert(LoadMetadata(meta)[name], files[name], tmps[name], NoEntry, now,
                             values, NoFault)} :
       LET registry == [LoadMetadata(meta) EXCEPT ![name].next_id = o.next_id]
           m == SaveMetadata(registry, meta, metaTmp, NoFault)
       IN /\ files' = [files EXCEPT ![name] = o.file]
          /\ tmps' = [tmps EXCEPT ![name] = o.tmp]
          /\ cache' = [cache EXCEPT ![p][name] = o.entry]
          /\ tables' = [tables EXCEPT ![p] = registry]
          /\ meta' = IF o.ok THEN m.file ELSE meta
          /\ metaTmp' = IF o.ok THEN m.tmp ELSE metaTmp
          /\ assigned' = IF o.ok THEN [assigned EXCEPT ![p].ids = Append(@, o.id)] ELSE assigned
          /\ res' = [Result("insert", name, o.ok, o.err, IF o.ok THEN o.id.n ELSE 0, o.saved)
                       EXCEPT !.args = <<p>>]
          /\ UNCHANGED <<now, lastSaved, pc>>

\* get_table(name).insert(values) in process p: its own registry and cache,
\* the shared files
SharedInsert(p, name, values) ==
    /\ tables[p][name].next_id <= MaxId
    /\ Len(Collection(files[name])) < MaxSharedRows
    /\ \E o \in {TableInsert(tables[p][name], files[name], tmps[name], cache[p][name], now,
                             values, NoFault)} :
       LET registry == [tables[p] EXCEPT ![name].next_id = o.next_id]
           m == SaveMetadata(registry, meta, metaTmp, NoFault)
       IN /\ files' = [files EXCEPT ![name] = o.file]
          /\ tmps' = [tmps EXCEPT ![name] = o.tmp]
          /\ cache' = [cache EXCEPT ![p][name] = o.entry]
          /\ tables' = [tables EXCEPT ![p] = registry]
          /\ meta' = IF o.ok THEN m.file ELSE meta
          /\ metaTmp' = IF o.ok THEN m.tmp ELSE metaTmp
          /\ assigned' = IF o.ok THEN [assigned EXCEPT ![p].ids = Append(@, o.id)] ELSE assigned
          /\ res' = [Result("insert", name, o.ok, o.err, IF o.ok THEN o.id.n ELSE 0, o.saved)
                       EXCEPT !.args = <<p>>]
          /\ UNCHANGED <<now, lastSaved, pc>>

\* get_table(name).select() in process p
SharedSelect(p, name) ==
    \E o \in {TableSelect(tables[p][name], files[name], tmps[name], cache[p][name], now, <<>>)} :
       /\ cache' = [cache EXCEPT ![p][name] = o.entry]
       /\ res' = [Result("select", name, o.ok, o.err, Len(o.rows), FALSE) EXCEPT !.args = <<p>>]
       /\ UNCHANGED <<now, files, tmps, meta, metaTmp, tables, lastSaved, assigned, pc>>

SharedNext ==
    \/ Tick
    \/ \E p \in Procs, name \in TableNames, values \in ValueLists : SharedInsert(p, name, values)
    \/ \E p \in Procs, name \in TableNames : SharedSelect(p, name)

SharedSpec == SharedInit /\ [][SharedNext]_vars

\* a row an insert wrote is no longer stored: fewer rows than inserts returned
LostRow(name) ==
    Len(Collection(files[name])) < Len(assigned[1].ids) + Len(assigned[2].ids)

\* two stored rows have the same ID
SharedId(name) ==
    LET data == Collection(files[name])
    IN \E i, j \in DOMAIN data : i # j /\ data[i].ID = data[j].ID

\* the persisted next_id is not greater than a stored ID
NextIdNotAbove(name) ==
    LET data == Collection(files[name])
    IN \E i \in DOMAIN data : LoadMetadata(meta)[name].next_id <= data[i].ID.n

\* C37: two processes that started from the same metadata and have each
\* inserted into a table leave metadata and table data inconsistent: a row
\* written is lost, or two stored rows share an ID, or the persisted next_id
\* is not greater than a stored ID; checked under SharedSpec.
C37_ConcurrentInsertsInconsistent ==
    \A name \in TableNames :
        (\A p \in Procs : assigned[p].ids # <<>>) =>
            (LostRow(name) \/ SharedId(name) \/ NextIdNotAbove(name))

\* both processes have inserted; a row is lost and two stored rows share an ID
C37_Witness_RowLostAndIdShared ==
    /\ \A p \in Procs : assigned[p].ids # <<>>
    /\ LostRow("users") /\ SharedId("users")

====
